---- MODULE Spec2Model ----
(***************************************************************************)
(* A model of the chessr rules engine (src/src/core): the Board state, the *)
(* attack detection, the legal move generator, the UCI / SAN notation      *)
(* parsers and Board::apply_move, as a state machine whose actions are the *)
(* public entry points make_move, make_uci_move and make_san_move.         *)
(***************************************************************************)
EXTENDS Integers, Sequences, FiniteSets, TLC

VARIABLES
    squares,            \* Board.squares: [[Option<Piece>; 8]; 8]
    active_color,       \* Board.active_color
    castle_rights,      \* Board.castle_rights
    en_passant_target,  \* Board.en_passant_target: Option<SquareCoords>
    halfmove_clock,     \* Board.halfmove_clock
    fullmove_number,    \* Board.fullmove_number
    position_history,   \* Board.position_history: Vec<String>
    ret,                \* the value returned by the last entry point (parse_fen:
                        \* with the text it was given)
    applied,            \* whether the last entry point called apply_move
    last_op,            \* the last entry point called, or the panic that ended it
    observed            \* the boards a caller has seen: the constructed one and
                        \* the one after every applied move

vars == <<squares, active_color, castle_rights, en_passant_target, halfmove_clock,
          fullmove_number, position_history, ret, applied, last_op, observed>>

-----------------------------------------------------------------------------
(* Option<T>, Color, Piece, SquareCoords *)

None == <<>>
Some(x) == <<x>>
IsSome(o) == o # <<>>
Unwrap(o) == o[1]

White == "White"
Black == "Black"
Colors == {White, Black}

invert(c) == IF c = White THEN Black ELSE White

Piece(k, c) == [kind |-> k, color |-> c]
Pawn(c) == Piece("Pawn", c)
Knight(c) == Piece("Knight", c)
Bishop(c) == Piece("Bishop", c)
Rook(c) == Piece("Rook", c)
Queen(c) == Piece("Queen", c)
King(c) == Piece("King", c)

Rows == 0..7

inside_board(s) == s[1] \in Rows /\ s[2] \in Rows

\* SquareCoords + (i8, i8); a coordinate that leaves 0..7 (negative values wrap
\* to huge usize values in the source) is only ever tested with inside_board.
AddDir(s, d) == <<s[1] + d[1], s[2] + d[2]>>
SubDir(s, d) == <<s[1] - d[1], s[2] - d[2]>>

PAWN_CAPTURE_DIRECTIONS == << <<1, 1>>, <<1, -1>> >>
PAWN_DIRECTIONS == << <<1, 0>>, <<2, 0>>, <<1, 1>>, <<1, -1>> >>
ROOK_DIRECTIONS == << <<1, 0>>, <<0, 1>>, <<-1, 0>>, <<0, -1>> >>
BISHOP_DIRECTIONS == << <<1, 1>>, <<-1, 1>>, <<-1, -1>>, <<1, -1>> >>
KNIGHT_DIRECTIONS == << <<2, 1>>, <<2, -1>>, <<-2, 1>>, <<-2, -1>>,
                        <<1, 2>>, <<1, -2>>, <<-1, 2>>, <<-1, -2>> >>
KING_DIRECTIONS == << <<1, 0>>, <<1, 1>>, <<1, -1>>, <<0, 1>>,
                      <<-1, 1>>, <<-1, 0>>, <<-1, -1>>, <<0, -1>> >>
QUEEN_DIRECTIONS == << <<1, 0>>, <<1, 1>>, <<0, 1>>, <<-1, 1>>,
                       <<-1, 0>>, <<-1, -1>>, <<0, -1>>, <<1, -1>> >>

directions(p) ==
    CASE p.kind = "Pawn" /\ p.color = Black -> PAWN_DIRECTIONS
      [] p.kind = "Pawn" /\ p.color = White ->
            [i \in 1..Len(PAWN_DIRECTIONS) |->
                <<0 - PAWN_DIRECTIONS[i][1], 0 - PAWN_DIRECTIONS[i][2]>>]
      [] p.kind = "Knight" -> KNIGHT_DIRECTIONS
      [] p.kind = "Bishop" -> BISHOP_DIRECTIONS
      [] p.kind = "Rook" -> ROOK_DIRECTIONS
      [] p.kind = "Queen" -> QUEEN_DIRECTIONS
      [] p.kind = "King" -> KING_DIRECTIONS

\* the `match piece { Queen | Rook | Bishop => continue, _ => break }` of the
\* ray loops
Slides(p) == p.kind \in {"Queen", "Rook", "Bishop"}

-----------------------------------------------------------------------------
(* Board: a record of the seven fields *)

get_piece(b, s) == b.squares[s[1]][s[2]]

set_piece(b, s, p) == [b EXCEPT !.squares[s[1]][s[2]] = p]

WhiteKingside == "WhiteKingside"
WhiteQueenside == "WhiteQueenside"
BlackKingside == "BlackKingside"
BlackQueenside == "BlackQueenside"
CastleRights == {WhiteKingside, WhiteQueenside, BlackKingside, BlackQueenside}

Kingside == "Kingside"
Queenside == "Queenside"

\* Move (core/move.rs)
Move(piece, color, src, dst, castle, promotion, capture) ==
    [piece |-> piece, color |-> color, src_square |-> src, dst_square |-> dst,
     castle |-> castle, promotion |-> promotion, capture |-> capture]

\* `let name = value;` followed by the code that reads name
Bind(value, Rest(_)) == Rest(value)

\* the first square of the grid, in row-major order, that holds the piece
FirstSquare(grid, piece) ==
    IF \A r \in Rows, c \in Rows : grid[r][c] # piece THEN None
    ELSE Bind(CHOOSE r \in Rows : /\ \E c \in Rows : grid[r][c] = piece
                                  /\ \A q \in 0..(r - 1), c \in Rows : grid[q][c] # piece,
              LAMBDA row :
                  Some(<<row, CHOOSE c \in Rows : /\ grid[row][c] = piece
                                                  /\ \A q \in 0..(c - 1) : grid[row][q] # piece>>))

\* Board::king_square: the first king of the active color in row-major order.
\* The unreachable!() of the source is the value None here.
king_square(b) == FirstSquare(b.squares, Some(King(b.active_color)))

\* Vec::append over the results of the iterations of a loop
RECURSIVE FlattenFrom(_, _)
FlattenFrom(parts, i) ==
    IF i > Len(parts) THEN <<>> ELSE parts[i] \o FlattenFrom(parts, i + 1)

Flatten(parts) == FlattenFrom(parts, 1)

SeqPart(parts, i) == IF i <= Len(parts) THEN parts[i] ELSE <<>>

\* the inner `while` of Board::square_attackers for one piece and direction
RECURSIVE AttackWalk(_, _, _, _)
AttackWalk(b, piece, d, s) ==
    IF ~inside_board(s) THEN <<>>
    ELSE IF IsSome(get_piece(b, s)) /\ Unwrap(get_piece(b, s)) # piece THEN <<>>
    ELSE (IF IsSome(get_piece(b, s)) THEN << <<piece, s>> >> ELSE <<>>)
         \o (IF Slides(piece) THEN AttackWalk(b, piece, d, AddDir(s, d)) ELSE <<>>)

\* the start of the walk as it would be without the inversion for pawns
AttackRayForward(b, sq, piece, d) ==
    IF piece.kind = "Pawn" /\ d[2] = 0 THEN <<>>
    ELSE AttackWalk(b, piece, d, AddDir(sq, d))

\* one direction of Board::square_attackers: where the walk starts
AttackRay(b, sq, piece, d) ==
    IF piece.kind = "Pawn" /\ d[2] = 0 THEN <<>>
    ELSE IF piece.kind = "Pawn"
         THEN AttackWalk(b, piece, d, <<sq[1] - d[1], sq[2] + d[2]>>)
         ELSE AttackWalk(b, piece, d, AddDir(sq, d))

\* the direction loop of Board::square_attackers for one piece
AttackDirs(b, sq, piece, dirs) ==
    Flatten([i \in 1..Len(dirs) |-> AttackRay(b, sq, piece, dirs[i])])

AttackerKinds == <<"Pawn", "Knight", "Bishop", "Rook", "Queen", "King">>

\* the piece loop of Board::square_attackers
AttackPiece(b, sq, piece) == AttackDirs(b, sq, piece, directions(piece))

AttackPieces(b, sq) ==
    Flatten([i \in 1..Len(AttackerKinds) |->
                AttackPiece(b, sq, Piece(AttackerKinds[i], invert(b.active_color)))])

\* Board::square_attackers: Vec<(Piece, SquareCoords)>
square_attackers(b, sq) == AttackPieces(b, sq)

checkers(b) == square_attackers(b, Unwrap(king_square(b)))

\* check as it would be if it looked for the king of the side that is not to
\* move
check_other_king(b) ==
    square_attackers(b, Unwrap(king_square([b EXCEPT !.active_color = invert(@)]))) # <<>>

check(b) == checkers(b) # <<>>

-----------------------------------------------------------------------------
(* FEN text.  fen::board_to_fen and fen::fen_to_board of the core Board are   *)
(* not among the sources; they follow section 6 of the specification.         *)

DigitChars == <<"0", "1", "2", "3", "4", "5", "6", "7", "8", "9">>
FileChars == <<"a", "b", "c", "d", "e", "f", "g", "h">>

IsDigit(c) == \E i \in 1..10 : DigitChars[i] = c
DigitValue(c) == (CHOOSE i \in 1..10 : DigitChars[i] = c) - 1
IsFile(c) == \E i \in 1..8 : FileChars[i] = c
FileIndex(c) == (CHOOSE i \in 1..8 : FileChars[i] = c) - 1
IsRank(c) == IsDigit(c) /\ DigitValue(c) \in 1..8

RECURSIVE NatToStr(_)
NatToStr(n) == IF n < 10 THEN DigitChars[n + 1]
               ELSE NatToStr(n \div 10) \o DigitChars[(n % 10) + 1]

RECURSIVE StrToNat(_, _)
StrToNat(str, acc) ==
    IF str = "" THEN acc ELSE StrToNat(Tail(str), 10 * acc + DigitValue(Head(str)))

RECURSIVE AllDigits(_)
AllDigits(str) == str = "" \/ (IsDigit(Head(str)) /\ AllDigits(Tail(str)))

\* Piece::to_fen_char
to_fen_char(p) ==
    LET c == CASE p.kind = "Pawn" -> <<"P", "p">>
               [] p.kind = "Knight" -> <<"N", "n">>
               [] p.kind = "Bishop" -> <<"B", "b">>
               [] p.kind = "Rook" -> <<"R", "r">>
               [] p.kind = "Queen" -> <<"Q", "q">>
               [] p.kind = "King" -> <<"K", "k">>
    IN IF p.color = White THEN c[1] ELSE c[2]

\* Piece::from_fen_char
from_fen_char(c) ==
    CASE c = "p" -> Some(Pawn(Black))   [] c = "n" -> Some(Knight(Black))
      [] c = "b" -> Some(Bishop(Black)) [] c = "r" -> Some(Rook(Black))
      [] c = "q" -> Some(Queen(Black))  [] c = "k" -> Some(King(Black))
      [] c = "P" -> Some(Pawn(White))   [] c = "N" -> Some(Knight(White))
      [] c = "B" -> Some(Bishop(White)) [] c = "R" -> Some(Rook(White))
      [] c = "Q" -> Some(Queen(White))  [] c = "K" -> Some(King(White))
      [] OTHER -> None

\* Color::to_fen_char
color_to_fen_char(c) == IF c = White THEN "w" ELSE "b"

\* impl Display for SquareCoords
square_to_string(s) == FileChars[s[2] + 1] \o NatToStr(8 - s[1])

\* SquareCoords::from_san_str: reads the first two characters only
from_san_str(str) ==
    IF Len(str) < 2 THEN None
    ELSE LET column_char == SubSeq(str, 1, 1)
             row_char == SubSeq(str, 2, 2) IN
         IF ~IsFile(column_char) \/ ~IsRank(row_char) THEN None
         ELSE Some(<<7 - (DigitValue(row_char) - 1), FileIndex(column_char)>>)

RECURSIVE FenRow(_, _, _, _)
FenRow(b, row, col, empty) ==
    IF col > 7 THEN (IF empty > 0 THEN NatToStr(empty) ELSE "")
    ELSE LET p == b.squares[row][col] IN
         IF IsSome(p)
         THEN (IF empty > 0 THEN NatToStr(empty) ELSE "")
              \o to_fen_char(Unwrap(p)) \o FenRow(b, row, col + 1, 0)
         ELSE FenRow(b, row, col + 1, empty + 1)

RECURSIVE FenRows(_, _)
FenRows(b, row) ==
    IF row = 7 THEN FenRow(b, 7, 0, 0)
    ELSE FenRow(b, row, 0, 0) \o "/" \o FenRows(b, row + 1)

FenCastle(rights) ==
    IF rights = {} THEN "-"
    ELSE (IF WhiteKingside \in rights THEN "K" ELSE "")
         \o (IF WhiteQueenside \in rights THEN "Q" ELSE "")
         \o (IF BlackKingside \in rights THEN "k" ELSE "")
         \o (IF BlackQueenside \in rights THEN "q" ELSE "")

board_to_fen(b) ==
    FenRows(b, 0) \o " " \o color_to_fen_char(b.active_color)
    \o " " \o FenCastle(b.castle_rights)
    \o " " \o (IF IsSome(b.en_passant_target)
               THEN square_to_string(Unwrap(b.en_passant_target)) ELSE "-")
    \o " " \o NatToStr(b.halfmove_clock) \o " " \o NatToStr(b.fullmove_number)

\* the k-th smallest element of a set of numbers
NthCut(cuts, k) == CHOOSE p \in cuts : Cardinality({q \in cuts : q < p}) = k - 1

SplitAt(str, cuts) ==
    [k \in 1..(Cardinality(cuts) - 1) |->
        SubSeq(str, NthCut(cuts, k) + 1, NthCut(cuts, k + 1) - 1)]

\* str::split: the pieces of str between the occurrences of the character sep
Split(str, sep) ==
    SplitAt(str, {0, Len(str) + 1} \cup {i \in 1..Len(str) : SubSeq(str, i, i) = sep})

NonEmpty(str) == str # ""

\* str::split_whitespace (the texts here hold no whitespace but blanks)
split_whitespace(str) == SelectSeq(Split(str, " "), NonEmpty)

\* one rank of the placement field: the squares it lists, in file order
RECURSIVE ParseRank(_, _)
ParseRank(str, acc) ==
    IF str = "" THEN acc
    ELSE LET c == Head(str) IN
         IF IsDigit(c)
         THEN ParseRank(Tail(str), acc \o [i \in 1..DigitValue(c) |-> None])
         ELSE ParseRank(Tail(str), Append(acc, from_fen_char(c)))

RECURSIVE RankChars(_)
RankChars(str) ==
    str = "" \/ ((IsDigit(Head(str)) \/ IsSome(from_fen_char(Head(str)))) /\ RankChars(Tail(str)))

RECURSIVE CastleChars(_)
CastleChars(str) ==
    str = "" \/ (Head(str) \in {"K", "Q", "k", "q"} /\ CastleChars(Tail(str)))

RECURSIVE CastleSet(_)
CastleSet(str) ==
    IF str = "" THEN {}
    ELSE CastleSet(Tail(str)) \cup
         {CASE Head(str) = "K" -> WhiteKingside [] Head(str) = "Q" -> WhiteQueenside
            [] Head(str) = "k" -> BlackKingside [] Head(str) = "q" -> BlackQueenside}

\* the grid the eight parsed ranks describe
FenGrid(parsed) == [r \in Rows |-> [f \in Rows |-> parsed[r + 1][f + 1]]]

FenBoard(blocks, rows, parsed, half, full) ==
    IF \/ Len(rows) # 8
       \/ \E i \in 1..Len(rows) : ~RankChars(rows[i]) \/ Len(parsed[i]) # 8
       \/ blocks[2] \notin {"w", "b"}
       \/ ~(blocks[3] = "-" \/ (blocks[3] # "" /\ CastleChars(blocks[3])))
       \/ ~(blocks[4] = "-" \/ (Len(blocks[4]) = 2 /\ IsSome(from_san_str(blocks[4]))))
       \/ half = "" \/ ~AllDigits(half) \/ full = "" \/ ~AllDigits(full)
       \/ \E c \in Colors :
            \A r \in Rows, f \in Rows : parsed[r + 1][f + 1] # Some(King(c))
    THEN None
    ELSE Some([squares |-> FenGrid(parsed),
               active_color |-> IF blocks[2] = "w" THEN White ELSE Black,
               castle_rights |-> IF blocks[3] = "-" THEN {} ELSE CastleSet(blocks[3]),
               en_passant_target |-> IF blocks[4] = "-" THEN None ELSE from_san_str(blocks[4]),
               halfmove_clock |-> StrToNat(half, 0),
               fullmove_number |-> StrToNat(full, 0),
               position_history |-> <<>>])

FenRanks(blocks, rows) ==
    FenBoard(blocks, rows, [i \in 1..Len(rows) |-> ParseRank(rows[i], <<>>)],
             IF Len(blocks) >= 5 THEN blocks[5] ELSE "0",
             IF Len(blocks) >= 6 THEN blocks[6] ELSE "1")

FenBlocks(blocks) ==
    IF Len(blocks) < 4 \/ Len(blocks) > 6 THEN None
    ELSE FenRanks(blocks, Split(blocks[1], "/"))

\* fen::fen_to_board as Result<Board, FenParseError>: Some(board) or None
fen_to_board(fen_str) == FenBlocks(split_whitespace(fen_str))

FEN_STARTING_POSITION == "rnbqkbnr/pppppppp/8/8/8/8/PPPPPPPP/RNBQKBNR w KQkq - 0 1"

-----------------------------------------------------------------------------
(* fen::parse_fen (fen.rs).  A bitboard is the set of its bits that are set, *)
(* Square(n) is the number n, and the Board it builds is a record.            *)

\* the value of an expression, computed once and handed to F
Let(v, F(_)) == CHOOSE y \in {F(x) : x \in {v}} : TRUE

\* Result<_, FenParseError>, and the panic of an index out of bounds
Ok(value) == [kind |-> "Ok", value |-> value]
Err(error) == [kind |-> "Err", value |-> error]
Panic == [kind |-> "Panic", value |-> <<"index out of bounds">>]

\* the `?`-like early return of the `match ... Err(..) => return Err(..)` steps
AndThen(r, F(_)) == Let(r, LAMBDA x : IF x.kind # "Ok" THEN x ELSE F(x.value))

\* consts.rs: the bits of RANK_1 (0xFF) and RANK_8 (0xFF << 56)
RANK_1 == 0..7
RANK_8 == 56..63

\* `[None; 64]`, `[BitBoard(0); PIECE_TYPE_COUNT]`, `[BitBoard(0); PLAYERS_COUNT]`
EmptyPlacement ==
    [pieces_order |-> [sq \in 0..63 |-> None],
     both_players_pieces |-> [kind \in {"Pawn", "Knight", "Bishop", "Rook", "Queen", "King"} |-> {}],
     players_pieces |-> [color \in Colors |-> {}]]

\* parse_fen: `pieces_order[square] = Some(piece)` and the two `|=`
PlacePiece(acc, square, piece) ==
    [pieces_order |-> [acc.pieces_order EXCEPT ![square] = Some(piece)],
     both_players_pieces |-> [acc.both_players_pieces EXCEPT ![piece.kind] = @ \cup {square}],
     players_pieces |-> [acc.players_pieces EXCEPT ![piece.color] = @ \cup {square}]]

\* parse_fen: `for c in row.chars()` and the test of row_sum after it
RECURSIVE ParseRowChars(_, _, _, _, _, _)
ParseRowChars(chars, i, col, last_was_digit, row_sum, acc) ==
    IF chars = ""
    THEN (IF row_sum # 8 THEN Err(<<"RankSquares", row_sum>>) ELSE Ok(acc))
    ELSE IF IsDigit(Head(chars))
    THEN (IF last_was_digit THEN Err(<<"ConsecutiveDigits">>)
          ELSE ParseRowChars(Tail(chars), i, col + DigitValue(Head(chars)), TRUE,
                             row_sum + DigitValue(Head(chars)), acc))
    ELSE IF i * 8 + col > 63 THEN Panic
    ELSE ParseRowChars(Tail(chars), i, col + 1, FALSE, row_sum + 1,
                       PlacePiece(acc, i * 8 + col, Unwrap(from_fen_char(Head(chars)))))

\* parse_fen: `for (i, row) in rows.iter().enumerate()`
RECURSIVE ParseRows(_, _, _)
ParseRows(rows, i, acc) ==
    IF i = 8 THEN Ok(acc)
    ELSE AndThen(ParseRowChars(rows[i + 1], i, 0, FALSE, 0, acc),
                 LAMBDA placed : ParseRows(rows, i + 1, placed))

\* parse_fen: the tests of the pawns on RANK_1 and RANK_8
PawnRankTest(acc) ==
    IF RANK_1 \cap acc.both_players_pieces["Pawn"] # {} THEN Err(<<"PawnRank", 1>>)
    ELSE IF RANK_8 \cap acc.both_players_pieces["Pawn"] # {} THEN Err(<<"PawnRank", 8>>)
    ELSE Ok(acc)

\* the tests of the kings with the second one left out
MissingKingTestWhiteOnly(acc) ==
    IF acc.both_players_pieces["King"] \cap acc.players_pieces[White] = {}
    THEN Err(<<"MissingKing", White>>)
    ELSE Ok(acc)

\* parse_fen: the tests of the two kings
MissingKingTest(acc) ==
    IF acc.both_players_pieces["King"] \cap acc.players_pieces[White] = {}
    THEN Err(<<"MissingKing", White>>)
    ELSE IF acc.both_players_pieces["King"] \cap acc.players_pieces[Black] = {}
    THEN Err(<<"MissingKing", Black>>)
    ELSE Ok(acc)

\* parse_fen: `let active_color = match blocks[1]`
ParseActiveColor(block) ==
    CASE block = "w" -> Ok(White)
      [] block = "b" -> Ok(Black)
      [] OTHER -> Err(<<"ActiveColor", block>>)

\* consts.rs: the masks of the castling rights
WHITE_KINGSIDE_CASTLE == 1
WHITE_QUEENSIDE_CASTLE == 2
BLACK_KINGSIDE_CASTLE == 4
BLACK_QUEENSIDE_CASTLE == 8

\* `bits |= mask` for a mask of one bit
BitOr(bits, mask) == IF (bits \div mask) % 2 = 1 THEN bits ELSE bits + mask

\* parse_fen: `for c in rights.chars()`
RECURSIVE ParseCastleChars(_, _)
ParseCastleChars(chars, castle_rights_) ==
    IF chars = "" THEN Ok(castle_rights_)
    ELSE CASE Head(chars) = "K" ->
                ParseCastleChars(Tail(chars), BitOr(castle_rights_, WHITE_KINGSIDE_CASTLE))
           [] Head(chars) = "Q" ->
                ParseCastleChars(Tail(chars), BitOr(castle_rights_, WHITE_QUEENSIDE_CASTLE))
           [] Head(chars) = "k" ->
                ParseCastleChars(Tail(chars), BitOr(castle_rights_, BLACK_KINGSIDE_CASTLE))
           [] Head(chars) = "q" ->
                ParseCastleChars(Tail(chars), BitOr(castle_rights_, BLACK_QUEENSIDE_CASTLE))
           [] OTHER -> Err(<<"CastleRight", Head(chars)>>)

\* parse_fen: `match blocks[2]`
ParseCastleRights(block) == IF block = "-" THEN Ok(0) ELSE ParseCastleChars(block, 0)

\* parse_fen: `for (i, char) in square.chars().enumerate()` and the test of
\* ep_square after it
RECURSIVE ParseEnPassantChars(_, _, _, _, _)
ParseEnPassantChars(chars, i, ep_square, active_color_, square) ==
    IF chars = "" THEN Ok(IF ep_square = 0 THEN None ELSE Some(ep_square))
    ELSE IF i = 0
    THEN (IF IsFile(Head(chars))
          THEN ParseEnPassantChars(Tail(chars), 1, FileIndex(Head(chars)), active_color_, square)
          ELSE Err(<<"EnPassantFile", Head(chars)>>))
    ELSE IF i = 1
    THEN (CASE Head(chars) = "3" /\ active_color_ = Black ->
                 ParseEnPassantChars(Tail(chars), 2, ep_square + 16, active_color_, square)
            [] Head(chars) = "6" /\ active_color_ = White ->
                 ParseEnPassantChars(Tail(chars), 2, ep_square + 40, active_color_, square)
            [] OTHER -> Err(<<"EnPassantRank", Head(chars)>>))
    ELSE Err(<<"EnPassantSquare", square>>)

\* parse_fen: `let en_passant_target = match blocks[3]`
ParseEnPassant(block, active_color_) ==
    IF block = "-" THEN Ok(None) ELSE ParseEnPassantChars(block, 0, 0, active_color_, block)

\* str::parse of a clock (the texts here carry no sign)
ParseClock(block, error) ==
    IF block # "" /\ AllDigits(block) THEN Ok(StrToNat(block, 0)) ELSE Err(<<error>>)

\* the optional blocks never read
BlockOrDefault(blocks, n, default) == default

\* `blocks.get(n).unwrap_or(default)`, n counted from 0
BlockOr(blocks, n, default) == IF Len(blocks) > n THEN blocks[n + 1] ELSE default

\* parse_fen: the blocks after the placement, and the Board it returns
ParseFields(blocks, acc) ==
    AndThen(ParseActiveColor(blocks[2]), LAMBDA color :
    AndThen(ParseCastleRights(blocks[3]), LAMBDA rights :
    AndThen(ParseEnPassant(blocks[4], color), LAMBDA target :
    AndThen(ParseClock(BlockOr(blocks, 4, "0"), "HalfmoveClock"), LAMBDA half :
    AndThen(ParseClock(BlockOr(blocks, 5, "1"), "FullmoveNumber"), LAMBDA full :
        Ok([pieces_order |-> acc.pieces_order,
            players_pieces |-> acc.players_pieces,
            both_players_pieces |-> acc.both_players_pieces,
            active_color |-> color,
            castle_rights |-> rights,
            en_passant_target |-> target,
            halfmove_clock |-> half,
            fullmove_number |-> full]))))))

\* parse_fen: the placement block
ParsePlacement(rows) ==
    IF Len(rows) # 8 THEN Err(<<"Rank">>)
    ELSE AndThen(ParseRows(rows, 0, EmptyPlacement), LAMBDA placed :
         AndThen(PawnRankTest(placed), LAMBDA pawns_ok : MissingKingTest(pawns_ok)))

ParseBlocks(blocks) ==
    IF Len(blocks) < 4 \/ Len(blocks) > 6 THEN Err(<<"Blocks">>)
    ELSE AndThen(ParsePlacement(Split(blocks[1], "/")),
                 LAMBDA placed : ParseFields(blocks, placed))

parse_fen(fen_str) == Let(split_whitespace(fen_str), LAMBDA blocks : ParseBlocks(blocks))

-----------------------------------------------------------------------------
(* Board::apply_move and its helpers (core/board.rs) *)

HomeRow(color) == IF color = White THEN 7 ELSE 0

castle_kingside(b) ==
    set_piece(set_piece(set_piece(set_piece(b,
        <<HomeRow(b.active_color), 4>>, None),
        <<HomeRow(b.active_color), 7>>, None),
        <<HomeRow(b.active_color), 6>>, Some(King(b.active_color))),
        <<HomeRow(b.active_color), 5>>, Some(Rook(b.active_color)))

\* queenside castling that clears the kingside rook's corner instead of the
\* queenside one
castle_queenside_wrong_corner(b) ==
    set_piece(set_piece(set_piece(set_piece(b,
        <<HomeRow(b.active_color), 4>>, None),
        <<HomeRow(b.active_color), 7>>, None),
        <<HomeRow(b.active_color), 2>>, Some(King(b.active_color))),
        <<HomeRow(b.active_color), 3>>, Some(Rook(b.active_color)))

castle_queenside(b) ==
    set_piece(set_piece(set_piece(set_piece(b,
        <<HomeRow(b.active_color), 4>>, None),
        <<HomeRow(b.active_color), 0>>, None),
        <<HomeRow(b.active_color), 2>>, Some(King(b.active_color))),
        <<HomeRow(b.active_color), 3>>, Some(Rook(b.active_color)))

WhiteRights == {WhiteKingside, WhiteQueenside}
BlackRights == {BlackKingside, BlackQueenside}

\* `move.src_square == Some(sq) || move.dst_square == Some(sq)`
Touches(m, sq) == m.src_square = Some(sq) \/ m.dst_square = Some(sq)

\* the rights dropped if only the source square of a move were tested against
\* the rook corners
RevokedRightsBySource(b, m) ==
    (IF IsSome(m.castle)
     THEN (IF b.active_color = White THEN WhiteRights ELSE BlackRights) ELSE {})
    \cup (IF m.piece = Some(King(White)) THEN WhiteRights ELSE {})
    \cup (IF m.piece = Some(King(Black)) THEN BlackRights ELSE {})
    \cup (IF m.src_square = Some(<<7, 7>>) THEN {WhiteKingside} ELSE {})
    \cup (IF m.src_square = Some(<<7, 0>>) THEN {WhiteQueenside} ELSE {})
    \cup (IF m.src_square = Some(<<0, 7>>) THEN {BlackKingside} ELSE {})
    \cup (IF m.src_square = Some(<<0, 0>>) THEN {BlackQueenside} ELSE {})

\* the rights the `retain` calls of update_castle_rights drop
RevokedRights(b, m) ==
    (IF IsSome(m.castle)
     THEN (IF b.active_color = White THEN WhiteRights ELSE BlackRights) ELSE {})
    \cup (IF m.piece = Some(King(White)) THEN WhiteRights ELSE {})
    \cup (IF m.piece = Some(King(Black)) THEN BlackRights ELSE {})
    \cup (IF Touches(m, <<7, 7>>) THEN {WhiteKingside} ELSE {})
    \cup (IF Touches(m, <<7, 0>>) THEN {WhiteQueenside} ELSE {})
    \cup (IF Touches(m, <<0, 7>>) THEN {BlackKingside} ELSE {})
    \cup (IF Touches(m, <<0, 0>>) THEN {BlackQueenside} ELSE {})

\* update_castle_rights as it would be if it toggled the rights of the move
\* instead of dropping them
update_castle_rights_toggle(b, m) ==
    (b.castle_rights \ RevokedRights(b, m)) \cup (RevokedRights(b, m) \ b.castle_rights)

\* Board::update_castle_rights: the rights that remain after the move
update_castle_rights(b, m) == b.castle_rights \ RevokedRights(b, m)

Abs(x) == IF x < 0 THEN 0 - x ELSE x

\* the direction loop of update_en_passant_target_square
EnPassantIfPawnBeside(b, target) ==
    IF \E i \in 1..Len(PAWN_CAPTURE_DIRECTIONS) :
          /\ inside_board(AddDir(target, PAWN_CAPTURE_DIRECTIONS[i]))
          /\ get_piece(b, AddDir(target, PAWN_CAPTURE_DIRECTIONS[i]))
                = Some(Pawn(invert(b.active_color)))
    THEN Some(target) ELSE None

\* Board::update_en_passant_target_square, read on the board as it is when
\* apply_move calls it (the active color is already inverted)
update_en_passant_target_square(b, m) ==
    IF IsSome(m.src_square) /\ IsSome(m.dst_square)
    THEN IF m.piece # Some(Pawn(b.active_color))
            \/ Abs(Unwrap(m.dst_square)[1] - Unwrap(m.src_square)[1]) # 2
         THEN None
         ELSE IF b.active_color = Black
              THEN EnPassantIfPawnBeside(b, <<Unwrap(m.dst_square)[1] - 1,
                                              Unwrap(m.dst_square)[2]>>)
              ELSE EnPassantIfPawnBeside(b, <<Unwrap(m.dst_square)[1] + 1,
                                              Unwrap(m.dst_square)[2]>>)
    ELSE None

\* en_passant_capture_square as it would be with the two colors swapped
en_passant_capture_square_swapped(b) ==
    IF b.active_color = White
    THEN <<Unwrap(b.en_passant_target)[1] - 1, Unwrap(b.en_passant_target)[2]>>
    ELSE <<Unwrap(b.en_passant_target)[1] + 1, Unwrap(b.en_passant_target)[2]>>

\* the square apply_move clears when the destination is the en-passant target
en_passant_capture_square(b) ==
    IF b.active_color = White
    THEN <<Unwrap(b.en_passant_target)[1] + 1, Unwrap(b.en_passant_target)[2]>>
    ELSE <<Unwrap(b.en_passant_target)[1] - 1, Unwrap(b.en_passant_target)[2]>>

\* apply_move, `if let Some(ref castle) = move.castle`
ApplyCastle(b, m) ==
    IF m.castle = Some(Kingside) THEN castle_kingside(b)
    ELSE IF m.castle = Some(Queenside) THEN castle_queenside(b)
    ELSE b

\* apply_move, the en passant capture
ApplyEnPassant(b, dst_square) ==
    IF b.en_passant_target = Some(dst_square)
    THEN set_piece(b, en_passant_capture_square(b), None)
    ELSE b

\* apply_move, the halfmove clock
ApplyClock(b, m) ==
    IF m.piece = Some(Pawn(b.active_color)) \/ m.capture
    THEN [b EXCEPT !.halfmove_clock = 0]
    ELSE [b EXCEPT !.halfmove_clock = @ + 1]

\* apply_move, the promotion or the moved piece on the destination, and the
\* emptied source
ApplyPlace(b, m) ==
    set_piece(set_piece(b, Unwrap(m.dst_square),
                        IF IsSome(m.promotion) THEN m.promotion ELSE m.piece),
              Unwrap(m.src_square), None)

\* apply_move, `if let (Some(src_square), Some(dst_square))`
ApplySquares(b, m) ==
    IF IsSome(m.src_square) /\ IsSome(m.dst_square)
    THEN ApplyPlace(ApplyClock(ApplyEnPassant(b, Unwrap(m.dst_square)), m), m)
    ELSE b

\* lines 419-458 of apply_move: the grid and the halfmove clock
apply_move_pieces(b, m) == ApplySquares(ApplyCastle(b, m), m)

ApplyRights(b, m) == [b EXCEPT !.castle_rights = update_castle_rights(b, m)]

\* a history that starts anew after a pawn move or a capture, the moves that
\* leave the halfmove clock at 0
ApplyHistoryIrreversible(b) ==
    IF b.halfmove_clock = 0
    THEN [b EXCEPT !.position_history = <<board_to_fen(b)>>]
    ELSE [b EXCEPT !.position_history = Append(@, board_to_fen(b))]

\* self.position_history.push(self.fen())
ApplyHistory(b) == [b EXCEPT !.position_history = Append(@, board_to_fen(b))]

ApplyColor(b) == [b EXCEPT !.active_color = invert(@)]

\* the target as it would be if a move that sets none left the old one standing
ApplyTargetKept(b, m) ==
    [b EXCEPT !.en_passant_target =
        IF update_en_passant_target_square(b, m) = None THEN @
        ELSE update_en_passant_target_square(b, m)]

\* self.en_passant_target = self.update_en_passant_target_square(move)
ApplyTarget(b, m) ==
    [b EXCEPT !.en_passant_target = update_en_passant_target_square(b, m)]

\* the fullmove number counted for the side that has just moved being White
ApplyFullmoveAfterWhite(b) ==
    [b EXCEPT !.fullmove_number = @ + (IF b.active_color = Black THEN 1 ELSE 0)]

ApplyFullmove(b) ==
    [b EXCEPT !.fullmove_number = @ + (IF b.active_color = White THEN 1 ELSE 0)]

\* lines 460-467 of apply_move: rights, history, color, en-passant target,
\* fullmove number, in the order of the source
apply_move_state(b, m) ==
    ApplyFullmove(ApplyTarget(ApplyColor(ApplyHistory(ApplyRights(b, m))), m))

\* Board::apply_move
apply_move(b, m) == apply_move_state(apply_move_pieces(b, m), m)

\* future_check as it would be without the second inversion of the color: it
\* reads the check of the side that did not move
future_check_unflipped(b, m) ==
    check([apply_move_pieces(b, m) EXCEPT !.active_color = invert(@)])

\* Board::future_check.  check reads the grid and the active color only, and
\* future_check inverts back the color that apply_move inverted, so the clone
\* is read after the grid part of apply_move.
future_check(b, m) == check(apply_move_pieces(b, m))

-----------------------------------------------------------------------------
(* The legal move generator (core/movegen.rs) *)

\* the Move literal of movegen.rs: src_square, dst_square, promotion, castle
GenMove(src, dst, promotion, castle) ==
    [src_square |-> src, dst_square |-> dst, promotion |-> promotion, castle |-> castle]

\* a generated move as apply_move reads it: the moving piece is the one on the
\* source square
ToMove(b, gm) ==
    Move(IF IsSome(gm.src_square) THEN get_piece(b, Unwrap(gm.src_square)) ELSE None,
         b.active_color, gm.src_square, gm.dst_square, gm.castle, gm.promotion,
         IsSome(gm.dst_square) /\ IsSome(get_piece(b, Unwrap(gm.dst_square))))

GenFutureCheck(b, gm) == future_check(b, ToMove(b, gm))

\* `if !board.future_check(&move) { legal_moves.push(move) }`
PushIfSafe(b, gm) == IF ~GenFutureCheck(b, gm) THEN <<gm>> ELSE <<>>

\* the `while` of piece_legal_moves for one direction
RECURSIVE PieceWalk(_, _, _, _, _)
PieceWalk(b, piece, src_square, d, dst_square) ==
    IF ~inside_board(dst_square) THEN <<>>
    ELSE IF IsSome(get_piece(b, dst_square))
            /\ Unwrap(get_piece(b, dst_square)).color = b.active_color
    THEN <<>>
    ELSE PushIfSafe(b, GenMove(Some(src_square), Some(dst_square), None, None))
         \o (IF IsSome(get_piece(b, dst_square)) THEN <<>>
             ELSE IF Slides(piece)
                  THEN PieceWalk(b, piece, src_square, d, AddDir(dst_square, d))
                  ELSE <<>>)

PieceDirs(b, piece, src_square, dirs) ==
    Flatten([i \in 1..Len(dirs) |->
                PieceWalk(b, piece, src_square, dirs[i], AddDir(src_square, dirs[i]))])

\* the promotion list without its last entry
PromotionKindsNoKnight == <<"Queen", "Rook", "Bishop">>

\* `for promotion in &[Queen, Rook, Bishop, Knight]`
PromotionKinds == <<"Queen", "Rook", "Bishop", "Knight">>

\* the promotion loop of pawn_legal_moves: it stops at the first promotion
\* that leaves the king in check
RECURSIVE PromotionMoves(_, _, _, _)
PromotionMoves(b, src_square, dst_square, i) ==
    IF i > Len(PromotionKinds) THEN <<>>
    ELSE IF GenFutureCheck(b, GenMove(Some(src_square), Some(dst_square),
                                      Some(Piece(PromotionKinds[i], b.active_color)), None))
    THEN <<>>
    ELSE << GenMove(Some(src_square), Some(dst_square),
                    Some(Piece(PromotionKinds[i], b.active_color)), None) >>
         \o PromotionMoves(b, src_square, dst_square, i + 1)

\* the iteration as it would be without the test of the square stepped over
PawnStepOverPieces(b, src_square, direction, dst_square) ==
    LET dst_square_piece == get_piece(b, dst_square)
        invalid_forward_move == direction[2] = 0 /\ IsSome(dst_square_piece)
        invalid_two_square_move_row == src_square[1] # 6 /\ src_square[1] # 1
        invalid_two_square_move ==
            (direction[1] = 2 \/ direction[1] = -2)
            /\ (invalid_two_square_move_row
                \/ IsSome(dst_square_piece))
        invalid_en_passant ==
            (IsSome(b.en_passant_target) /\ Unwrap(b.en_passant_target) # dst_square)
            \/ b.en_passant_target = None
        invalid_capture ==
            (direction[2] # 0 /\ (dst_square_piece = None /\ invalid_en_passant))
            \/ (IsSome(dst_square_piece) /\ Unwrap(dst_square_piece).color = b.active_color)
    IN
    IF invalid_forward_move \/ invalid_two_square_move \/ invalid_capture THEN <<>>
    ELSE IF (dst_square[1] = 0 /\ b.active_color = White)
            \/ (dst_square[1] = 7 /\ b.active_color = Black)
         THEN PromotionMoves(b, src_square, dst_square, 1)
         ELSE PushIfSafe(b, GenMove(Some(src_square), Some(dst_square), None, None))

\* one iteration of the direction loop of pawn_legal_moves, past the bounds test
PawnStep(b, src_square, direction, dst_square) ==
    LET dst_square_piece == get_piece(b, dst_square)
        invalid_forward_move == direction[2] = 0 /\ IsSome(dst_square_piece)
        invalid_two_square_move_row == src_square[1] # 6 /\ src_square[1] # 1
        piece_blocking_two_square_move ==
            IF b.active_color = Black
            THEN IsSome(get_piece(b, <<dst_square[1] - 1, dst_square[2]>>))
            ELSE IsSome(get_piece(b, <<dst_square[1] + 1, dst_square[2]>>))
        invalid_two_square_move ==
            (direction[1] = 2 \/ direction[1] = -2)
            /\ (invalid_two_square_move_row
                \/ piece_blocking_two_square_move
                \/ IsSome(dst_square_piece))
        invalid_en_passant ==
            (IsSome(b.en_passant_target) /\ Unwrap(b.en_passant_target) # dst_square)
            \/ b.en_passant_target = None
        invalid_capture ==
            (direction[2] # 0 /\ (dst_square_piece = None /\ invalid_en_passant))
            \/ (IsSome(dst_square_piece) /\ Unwrap(dst_square_piece).color = b.active_color)
    IN
    IF invalid_forward_move \/ invalid_two_square_move \/ invalid_capture THEN <<>>
    ELSE IF (dst_square[1] = 0 /\ b.active_color = White)
            \/ (dst_square[1] = 7 /\ b.active_color = Black)
         THEN PromotionMoves(b, src_square, dst_square, 1)
         ELSE PushIfSafe(b, GenMove(Some(src_square), Some(dst_square), None, None))

\* one iteration of the direction loop of pawn_legal_moves
PawnDirection(b, src_square, direction) ==
    IF ~inside_board(AddDir(src_square, direction)) THEN <<>>
    ELSE PawnStep(b, src_square, direction, AddDir(src_square, direction))

PawnDirs(b, src_square, dirs) ==
    Flatten([i \in 1..Len(dirs) |-> PawnDirection(b, src_square, dirs[i])])

pawn_legal_moves(b, src_square) ==
    PawnDirs(b, src_square, directions(Pawn(b.active_color)))

piece_legal_moves(b, piece, src_square) ==
    IF piece.kind = "Pawn" THEN pawn_legal_moves(b, src_square)
    ELSE PieceDirs(b, piece, src_square, directions(piece))

\* the tests of castle_legal_moves for one side: the right, the empty squares
\* and the squares no enemy piece attacks
CastleAllowed(b, right, empty_cols, safe_cols) ==
    /\ right \in b.castle_rights
    /\ \A c \in empty_cols : get_piece(b, <<HomeRow(b.active_color), c>>) = None
    /\ \A c \in safe_cols : square_attackers(b, <<HomeRow(b.active_color), c>>) = <<>>

castle_legal_moves(b) ==
    (IF CastleAllowed(b, IF b.active_color = White THEN WhiteKingside ELSE BlackKingside,
                      {5, 6}, {5, 6})
     THEN <<GenMove(None, None, None, Some(Kingside))>> ELSE <<>>)
    \o (IF CastleAllowed(b, IF b.active_color = White THEN WhiteQueenside
                            ELSE BlackQueenside,
                         {1, 2, 3}, {2, 3})
        THEN <<GenMove(None, None, None, Some(Queenside))>> ELSE <<>>)

\* the moves of the piece on one square, if it is of the active color
SquareMoves(b, row, col) ==
    IF b.squares[row][col] = None \/ Unwrap(b.squares[row][col]).color # b.active_color
    THEN <<>>
    ELSE piece_legal_moves(b, Unwrap(b.squares[row][col]), <<row, col>>)

\* the row and column loops of generate_legal_moves
GenSquares(b) ==
    Flatten([r \in 1..8 |-> Flatten([c \in 1..8 |-> SquareMoves(b, r - 1, c - 1)])])

generate_legal_moves(b) == GenSquares(b) \o castle_legal_moves(b)

legal_moves(b) == generate_legal_moves(b)

-----------------------------------------------------------------------------
(* The coordinates handed to Board::get_piece and Board::set_piece *)

\* the coordinates a `while (0..=7).contains(..)` walk from s along d can hand
\* to get_piece: the loops of piece_legal_moves, square_attackers and
\* algebraic_piece_move may stop earlier, on a piece, never later
RECURSIVE RayIndexed(_, _, _)
RayIndexed(d, s, slides) ==
    IF ~inside_board(s) THEN {}
    ELSE {s} \cup (IF slides THEN RayIndexed(d, AddDir(s, d), slides) ELSE {})

\* the destinations of a pawn as they would be read without the bounds test
PawnIndexedUnchecked(b, src_square) ==
    {AddDir(src_square, directions(Pawn(b.active_color))[i])
        : i \in 1..Len(directions(Pawn(b.active_color)))}

\* pawn_legal_moves: past the bounds test, the destination and the square
\* behind it, which piece_blocking_two_square_move reads for every direction
PawnIndexed(b, src_square) ==
    UNION {IF ~inside_board(AddDir(src_square, d)) THEN {}
           ELSE {AddDir(src_square, d),
                 IF b.active_color = Black
                 THEN <<AddDir(src_square, d)[1] - 1, AddDir(src_square, d)[2]>>
                 ELSE <<AddDir(src_square, d)[1] + 1, AddDir(src_square, d)[2]>>}
           : d \in {directions(Pawn(b.active_color))[i]
                       : i \in 1..Len(directions(Pawn(b.active_color)))}}

\* generate_legal_moves: the walks of every piece of the active color and
\* the squares castle_legal_moves reads
GeneratorIndexed(b) ==
    UNION {IF b.squares[s[1]][s[2]] = None
              \/ Unwrap(b.squares[s[1]][s[2]]).color # b.active_color
           THEN {}
           ELSE IF Unwrap(b.squares[s[1]][s[2]]).kind = "Pawn" THEN PawnIndexed(b, s)
           ELSE UNION {RayIndexed(d, AddDir(s, d), Slides(Unwrap(b.squares[s[1]][s[2]])))
                       : d \in {directions(Unwrap(b.squares[s[1]][s[2]]))[i]
                           : i \in 1..Len(directions(Unwrap(b.squares[s[1]][s[2]])))}}
           : s \in Rows \X Rows}
    \cup {<<HomeRow(b.active_color), c>> : c \in {1, 2, 3, 5, 6}}

\* Board::square_attackers: the walks of the six enemy pieces from sq
AttackIndexed(b, sq) ==
    UNION {UNION {IF kind = "Pawn" /\ d[2] = 0 THEN {}
                  ELSE IF kind = "Pawn"
                       THEN RayIndexed(d, <<sq[1] - d[1], sq[2] + d[2]>>, FALSE)
                       ELSE RayIndexed(d, AddDir(sq, d),
                                       Slides(Piece(kind, invert(b.active_color))))
                  : d \in {directions(Piece(kind, invert(b.active_color)))[i]
                      : i \in 1..Len(directions(Piece(kind, invert(b.active_color))))}}
           : kind \in {AttackerKinds[i] : i \in 1..Len(AttackerKinds)}}

\* algebraic_piece_move and algebraic_pawn_move: the source squares tried for
\* a destination; a walk that skips a square for its disambiguation goes on
\* for every piece
AlgebraicIndexed(b, piece, dst_square) ==
    IF piece.kind = "Pawn"
    THEN {dst_square} \cup
         {SubDir(dst_square, d)
            : d \in {e \in {directions(piece)[i] : i \in 1..Len(directions(piece))}
                        : inside_board(SubDir(dst_square, e))}}
    ELSE {dst_square} \cup
         UNION {RayIndexed(d, AddDir(dst_square, d), TRUE)
                : d \in {directions(piece)[i] : i \in 1..Len(directions(piece))}}

\* update_en_passant_target_square: past its first test, the neighbours of
\* the target it reads, b being the board as apply_move hands it over
TargetIndexed(b, m) ==
    IF m.src_square = None \/ m.dst_square = None THEN {}
    ELSE IF m.piece # Some(Pawn(b.active_color))
            \/ Abs(Unwrap(m.dst_square)[1] - Unwrap(m.src_square)[1]) # 2
    THEN {}
    ELSE {s \in {AddDir(<<Unwrap(m.dst_square)[1]
                            + (IF b.active_color = Black THEN -1 ELSE 1),
                          Unwrap(m.dst_square)[2]>>, PAWN_CAPTURE_DIRECTIONS[i])
                    : i \in 1..Len(PAWN_CAPTURE_DIRECTIONS)} : inside_board(s)}

\* Board::apply_move: the squares it writes for a move, and the squares the
\* computation of the next target reads
ApplyIndexed(b, m) ==
    (IF m.castle = Some(Kingside)
     THEN {<<HomeRow(b.active_color), c>> : c \in {4, 5, 6, 7}}
     ELSE IF m.castle = Some(Queenside)
          THEN {<<HomeRow(b.active_color), c>> : c \in {0, 2, 3, 4}} ELSE {})
    \cup (IF IsSome(m.src_square) /\ IsSome(m.dst_square)
          THEN {Unwrap(m.src_square), Unwrap(m.dst_square)}
               \cup (IF b.en_passant_target = m.dst_square
                     THEN {en_passant_capture_square(b)} ELSE {})
          ELSE {})
    \cup TargetIndexed(ApplyColor(b), m)

-----------------------------------------------------------------------------
(* Move notation (core/move.rs, core/castle.rs, constants.rs) *)

\* the character classes of the regular expressions of constants.rs
FILE_CLASS == {"a", "b", "c", "d", "e", "f", "g", "h"}
RANK_CLASS == {"1", "2", "3", "4", "5", "6", "7", "8"}
PAWN_RANK_CLASS == {"2", "3", "4", "5", "6", "7"}
LAST_RANK_CLASS == {"1", "8"}
PIECE_CLASS == {"K", "Q", "B", "N", "R"}
PROMOTION_CLASS == {"Q", "B", "N", "R"}
UCI_PROMOTION_CLASS == {"q", "r", "b", "n"}

\* str.chars().nth(i - 1), the empty text for None
CharAt(str, i) == IF i \in 1..Len(str) THEN SubSeq(str, i, i) ELSE ""

\* ^c1 c2 ... cn$ for a sequence of character classes
MatchClasses(str, classes) ==
    Len(str) = Len(classes) /\ \A i \in 1..Len(classes) : CharAt(str, i) \in classes[i]

\* ^c1 c2 ... cn(\+|\#)?$
MatchSan(str, classes) ==
    \/ MatchClasses(str, classes)
    \/ /\ Len(str) = Len(classes) + 1
       /\ CharAt(str, Len(str)) \in {"+", "#"}
       /\ MatchClasses(SubSeq(str, 1, Len(classes)), classes)

CASTLE_WORDS == {"O-O", "O-O-O", "0-0", "0-0-0", "o-o", "o-o-o"}
CASTLE_REGEX(str) ==
    \/ str \in CASTLE_WORDS
    \/ /\ Len(str) > 1 /\ CharAt(str, Len(str)) \in {"+", "#"}
       /\ SubSeq(str, 1, Len(str) - 1) \in CASTLE_WORDS

PAWN_MOVE_REGEX(str) == MatchSan(str, <<FILE_CLASS, PAWN_RANK_CLASS>>)
PIECE_MOVE_REGEX(str) == MatchSan(str, <<PIECE_CLASS, FILE_CLASS, RANK_CLASS>>)
PAWN_CAPTURE_REGEX(str) == MatchSan(str, <<FILE_CLASS, {"x"}, FILE_CLASS, PAWN_RANK_CLASS>>)
PIECE_CAPTURE_REGEX(str) == MatchSan(str, <<PIECE_CLASS, {"x"}, FILE_CLASS, RANK_CLASS>>)
PAWN_PROMOTION_REGEX(str) ==
    MatchSan(str, <<FILE_CLASS, LAST_RANK_CLASS, {"="}, PROMOTION_CLASS>>)
PAWN_CAPTURE_PROMOTION_REGEX(str) ==
    MatchSan(str, <<FILE_CLASS, {"x"}, FILE_CLASS, LAST_RANK_CLASS, {"="}, PROMOTION_CLASS>>)
PIECE_MOVE_ROW_DISAMBIGUATION_REGEX(str) ==
    MatchSan(str, <<PIECE_CLASS, RANK_CLASS, FILE_CLASS, RANK_CLASS>>)
PIECE_MOVE_COLUMN_DISAMBIGUATION_REGEX(str) ==
    MatchSan(str, <<PIECE_CLASS, FILE_CLASS, FILE_CLASS, RANK_CLASS>>)
PIECE_MOVE_ROW_AND_COLUMN_DISAMBIGUATION_REGEX(str) ==
    MatchSan(str, <<PIECE_CLASS, FILE_CLASS, RANK_CLASS, FILE_CLASS, RANK_CLASS>>)
PIECE_CAPTURE_ROW_DISAMBIGUATION_REGEX(str) ==
    MatchSan(str, <<PIECE_CLASS, RANK_CLASS, {"x"}, FILE_CLASS, RANK_CLASS>>)
PIECE_CAPTURE_COLUMN_DISAMBIGUATION_REGEX(str) ==
    MatchSan(str, <<PIECE_CLASS, FILE_CLASS, {"x"}, FILE_CLASS, RANK_CLASS>>)
PIECE_CAPTURE_ROW_AND_COLUMN_DISAMBIGUATION_REGEX(str) ==
    MatchSan(str, <<PIECE_CLASS, FILE_CLASS, RANK_CLASS, {"x"}, FILE_CLASS, RANK_CLASS>>)

UCI_MOVE_REGEX(str) ==
    \/ MatchClasses(str, <<FILE_CLASS, RANK_CLASS, FILE_CLASS, RANK_CLASS>>)
    \/ MatchClasses(str, <<FILE_CLASS, RANK_CLASS, FILE_CLASS, RANK_CLASS, UCI_PROMOTION_CLASS>>)
UCI_MOVE_DASH_REGEX(str) ==
    \/ MatchClasses(str, <<FILE_CLASS, RANK_CLASS, {"-"}, FILE_CLASS, RANK_CLASS>>)
    \/ MatchClasses(str, <<FILE_CLASS, RANK_CLASS, {"-"}, FILE_CLASS, RANK_CLASS,
                           UCI_PROMOTION_CLASS>>)

\* CastleKind::from_san_str
castle_from_san_str(str) ==
    IF str \in {"O-O", "0-0", "o-o"} THEN Some(Kingside)
    ELSE IF str \in {"O-O-O", "0-0-0", "o-o-o"} THEN Some(Queenside)
    ELSE None

\* from_uci_str matching the texts without the separator only
castle_from_uci_str_undashed(uci) ==
    IF uci \in {"e1g1", "e8g8"} THEN Some(Kingside)
    ELSE IF uci \in {"e1c1", "e8c8"} THEN Some(Queenside)
    ELSE None

\* CastleKind::from_uci_str
castle_from_uci_str(uci) ==
    IF uci \in {"e1g1", "e8g8", "e1-g1", "e8-g8"} THEN Some(Kingside)
    ELSE IF uci \in {"e1c1", "e8c8", "e1-c1", "e8-c8"} THEN Some(Queenside)
    ELSE None


\* Piece::from_san_char
from_san_char(c, color) ==
    CASE c = "P" -> Some(Pawn(color))   [] c = "N" -> Some(Knight(color))
      [] c = "B" -> Some(Bishop(color)) [] c = "R" -> Some(Rook(color))
      [] c = "Q" -> Some(Queen(color))  [] c = "K" -> Some(King(color))
      [] OTHER -> None

\* Piece::from_uci_char
from_uci_char(c, color) ==
    CASE c = "p" -> Some(Pawn(color))   [] c = "n" -> Some(Knight(color))
      [] c = "b" -> Some(Bishop(color)) [] c = "r" -> Some(Rook(color))
      [] c = "q" -> Some(Queen(color))  [] c = "k" -> Some(King(color))
      [] OTHER -> None



\* the Move from_uci builds from the parsed squares and promotion
UciMove(b, src_square, dst_square, promotion_char, castle) ==
    IF src_square = None \/ dst_square = None THEN None
    ELSE IF promotion_char # "" /\ from_uci_char(promotion_char, b.active_color) = None
    THEN None
    ELSE IF IsSome(castle)
         THEN Some(Move(None, b.active_color, None, None, castle, None, FALSE))
         ELSE Some(Move(get_piece(b, Unwrap(src_square)), b.active_color,
                        src_square, dst_square, None,
                        IF promotion_char = "" THEN None
                        ELSE from_uci_char(promotion_char, b.active_color),
                        IsSome(get_piece(b, Unwrap(dst_square)))))

\* Move::from_uci
from_uci(uci_str, b) ==
    IF ~UCI_MOVE_REGEX(uci_str) /\ ~UCI_MOVE_DASH_REGEX(uci_str) THEN None
    ELSE IF UCI_MOVE_DASH_REGEX(uci_str)
         THEN UciMove(b, from_san_str(SubSeq(uci_str, 1, 2)),
                      from_san_str(SubSeq(uci_str, 4, 5)), CharAt(uci_str, 6),
                      castle_from_uci_str(uci_str))
         ELSE UciMove(b, from_san_str(SubSeq(uci_str, 1, 2)),
                      from_san_str(SubSeq(uci_str, 3, 4)), CharAt(uci_str, 5),
                      castle_from_uci_str(uci_str))

\* &str[from..]
StrFrom(str, from) == SubSeq(str, from + 1, Len(str))

\* algebraic_pawn_move: the first direction whose source square holds a pawn
\* of the active color
RECURSIVE AlgebraicPawnDirs(_, _, _, _, _)
AlgebraicPawnDirs(dst_square, b, disambiguation_column, dirs, i) ==
    IF i > Len(dirs) THEN None
    ELSE IF \/ ~inside_board(SubDir(dst_square, dirs[i]))
            \/ get_piece(b, SubDir(dst_square, dirs[i])) # Some(Pawn(b.active_color))
            \/ /\ IsSome(disambiguation_column)
               /\ Unwrap(disambiguation_column) # SubDir(dst_square, dirs[i])[2]
    THEN AlgebraicPawnDirs(dst_square, b, disambiguation_column, dirs, i + 1)
    ELSE Some(Move(Some(Pawn(b.active_color)), b.active_color,
                   Some(SubDir(dst_square, dirs[i])), Some(dst_square), None, None,
                   IsSome(get_piece(b, dst_square))
                   \/ b.en_passant_target = Some(dst_square)))

algebraic_pawn_move(dst_square, b, disambiguation_column) ==
    AlgebraicPawnDirs(dst_square, b, disambiguation_column,
                      directions(Pawn(b.active_color)), 1)

\* `if !board.future_check(&move) { valid_moves.push(move) }`
ValidIfSafe(b, m) == IF ~future_check(b, m) THEN <<m>> ELSE <<>>

\* the `while` of algebraic_piece_move for one direction, up to the square it
\* stops on: the source square of the move it builds, if it builds one
RECURSIVE AlgebraicSource(_, _, _, _, _, _)
AlgebraicSource(piece, disambiguation_row, disambiguation_column, b, d, src_square) ==
    IF ~inside_board(src_square) THEN None
    ELSE IF IsSome(get_piece(b, src_square)) /\ Unwrap(get_piece(b, src_square)) # piece
    THEN None
    ELSE IF \/ IsSome(disambiguation_row) /\ Unwrap(disambiguation_row) # src_square[1]
            \/ IsSome(disambiguation_column)
               /\ Unwrap(disambiguation_column) # src_square[2]
            \/ get_piece(b, src_square) = None /\ Slides(piece)
    THEN AlgebraicSource(piece, disambiguation_row, disambiguation_column,
                         b, d, AddDir(src_square, d))
    ELSE IF get_piece(b, src_square) = None THEN None
    ELSE Some(src_square)

\* the Move literal of algebraic_piece_move
AlgebraicMove(piece, src_square, dst_square, b) ==
    Move(Some(piece), b.active_color, Some(src_square), Some(dst_square), None, None,
         IsSome(get_piece(b, dst_square)))

\* the `while` of algebraic_piece_move for one direction
AlgebraicWalk(piece, dst_square, disambiguation_row, disambiguation_column, b, d, src_square) ==
    IF AlgebraicSource(piece, disambiguation_row, disambiguation_column, b, d, src_square) = None
    THEN <<>>
    ELSE ValidIfSafe(b, AlgebraicMove(piece,
            Unwrap(AlgebraicSource(piece, disambiguation_row, disambiguation_column,
                                   b, d, src_square)),
            dst_square, b))

AlgebraicDirs(piece, dst_square, disambiguation_row, disambiguation_column, b, dirs) ==
    Flatten([i \in 1..Len(dirs) |->
        AlgebraicWalk(piece, dst_square, disambiguation_row, disambiguation_column,
                      b, dirs[i], AddDir(dst_square, dirs[i]))])

\* `match valid_moves.len()`
OnlyMove(valid_moves) == IF Len(valid_moves) = 1 THEN Some(valid_moves[1]) ELSE None

algebraic_piece_move(piece, dst_square, disambiguation_row, disambiguation_column, b) ==
    IF piece.kind = "Pawn" THEN algebraic_pawn_move(dst_square, b, disambiguation_column)
    ELSE OnlyMove(AlgebraicDirs(piece, dst_square, disambiguation_row,
                                disambiguation_column, b, directions(piece)))

\* future_check -> check -> checkers -> king_square reaching its
\* `unreachable!("King can't be missing from the battle!")`: the clone the
\* move was applied to holds no king of the side that moved
FutureCheckPanics(b, m) == king_square(apply_move_pieces(b, m)) = None

\* algebraic_piece_move calling future_check with a move that panics
AlgebraicPanics(piece, dst_square, disambiguation_row, disambiguation_column, b) ==
    /\ piece.kind # "Pawn"
    /\ \E i \in 1..Len(directions(piece)) :
        \E src \in {AlgebraicSource(piece, disambiguation_row, disambiguation_column, b,
                                    directions(piece)[i],
                                    AddDir(dst_square, directions(piece)[i]))} :
            /\ IsSome(src)
            /\ FutureCheckPanics(b, AlgebraicMove(piece, Unwrap(src), dst_square, b))

\* `7 - (c as usize - 49)` and `c as usize - 97` of from_san
DisambiguationRow(c) == Some(7 - (DigitValue(c) - 1))
DisambiguationColumn(c) == Some(FileIndex(c))

\* what one branch of from_san reads from the text: the piece, the destination,
\* the disambiguation and the promotion
SanFields(piece, dst_square, row, column, promotion) ==
    Some([piece |-> piece, dst_square |-> dst_square, disambiguation_row |-> row,
          disambiguation_column |-> column, promotion |-> promotion])

\* the source square of a row and column disambiguation, as two Options
SourceRow(str) == Some(Unwrap(from_san_str(SubSeq(str, 2, 3)))[1])
SourceColumn(str) == Some(Unwrap(from_san_str(SubSeq(str, 2, 3)))[2])

\* the branches of from_san after the castle branch, in the order of the source
SanBranch(str, color, piece) ==
    IF PAWN_MOVE_REGEX(str)
    THEN SanFields(Some(Pawn(color)), from_san_str(str), None, None, None)
    ELSE IF PIECE_MOVE_REGEX(str)
    THEN SanFields(piece, from_san_str(StrFrom(str, 1)), None, None, None)
    ELSE IF PIECE_MOVE_ROW_DISAMBIGUATION_REGEX(str)
    THEN SanFields(piece, from_san_str(StrFrom(str, 2)),
                   DisambiguationRow(CharAt(str, 2)), None, None)
    ELSE IF PIECE_MOVE_COLUMN_DISAMBIGUATION_REGEX(str)
    THEN SanFields(piece, from_san_str(StrFrom(str, 2)),
                   None, DisambiguationColumn(CharAt(str, 2)), None)
    ELSE IF PIECE_MOVE_ROW_AND_COLUMN_DISAMBIGUATION_REGEX(str)
    THEN SanFields(piece, from_san_str(StrFrom(str, 3)),
                   SourceRow(str), SourceColumn(str), None)
    ELSE IF PAWN_CAPTURE_REGEX(str)
    THEN SanFields(Some(Pawn(color)), from_san_str(StrFrom(str, 2)),
                   None, DisambiguationColumn(CharAt(str, 1)), None)
    ELSE IF PIECE_CAPTURE_REGEX(str)
    THEN SanFields(piece, from_san_str(StrFrom(str, 2)), None, None, None)
    ELSE IF PIECE_CAPTURE_ROW_DISAMBIGUATION_REGEX(str)
    THEN SanFields(piece, from_san_str(StrFrom(str, 3)),
                   DisambiguationRow(CharAt(str, 2)), None, None)
    ELSE IF PIECE_CAPTURE_COLUMN_DISAMBIGUATION_REGEX(str)
    THEN SanFields(piece, from_san_str(StrFrom(str, 3)),
                   None, DisambiguationColumn(CharAt(str, 2)), None)
    ELSE IF PIECE_CAPTURE_ROW_AND_COLUMN_DISAMBIGUATION_REGEX(str)
    THEN SanFields(piece, from_san_str(StrFrom(str, 4)),
                   SourceRow(str), SourceColumn(str), None)
    ELSE IF PAWN_PROMOTION_REGEX(str)
    THEN SanFields(Some(Pawn(color)), from_san_str(SubSeq(str, 1, 2)), None, None,
                   from_san_char(CharAt(str, 4), color))
    ELSE IF PAWN_CAPTURE_PROMOTION_REGEX(str)
    THEN SanFields(Some(Pawn(color)), from_san_str(SubSeq(str, 3, 4)), None,
                   DisambiguationColumn(CharAt(str, 1)),
                   from_san_char(CharAt(str, 6), color))
    ELSE None

\* `move.promotion = Some(promotion_piece)` on the move algebraic_piece_move found
WithPromotion(m, promotion) ==
    IF IsSome(m) /\ IsSome(promotion)
    THEN Some([Unwrap(m) EXCEPT !.promotion = promotion]) ELSE m

\* the call of algebraic_piece_move the matching branch of from_san makes
SanMove(fields, b) ==
    IF fields = None THEN None
    ELSE IF Unwrap(fields).piece = None \/ Unwrap(fields).dst_square = None THEN None
    ELSE WithPromotion(
            algebraic_piece_move(Unwrap(Unwrap(fields).piece),
                                 Unwrap(Unwrap(fields).dst_square),
                                 Unwrap(fields).disambiguation_row,
                                 Unwrap(fields).disambiguation_column, b),
            Unwrap(fields).promotion)

\* from_san making the call of algebraic_piece_move that panics
SanPanics(str, b) ==
    /\ ~CASTLE_REGEX(str)
    /\ \E fields \in {SanBranch(str, b.active_color,
                                from_san_char(CharAt(str, 1), b.active_color))} :
        /\ IsSome(fields)
        /\ IsSome(Unwrap(fields).piece)
        /\ IsSome(Unwrap(fields).dst_square)
        /\ AlgebraicPanics(Unwrap(Unwrap(fields).piece), Unwrap(Unwrap(fields).dst_square),
                           Unwrap(fields).disambiguation_row,
                           Unwrap(fields).disambiguation_column, b)

\* Move::from_san
from_san(str, b) ==
    IF CASTLE_REGEX(str)
    THEN (IF castle_from_san_str(str) = None THEN None
          ELSE Some(Move(None, b.active_color, None, None, castle_from_san_str(str),
                         None, FALSE)))
    ELSE SanMove(SanBranch(str, b.active_color,
                           from_san_char(CharAt(str, 1), b.active_color)), b)

-----------------------------------------------------------------------------
(* Game state predicates and the move entry points of Board (core/board.rs) *)

checkmate(b) == check(b) /\ legal_moves(b) = <<>>

stalemate(b) == ~check(b) /\ legal_moves(b) = <<>>

fifty_move_rule(b) == b.halfmove_clock >= 50

\* pos.split_whitespace().take(4).collect::<String>()
TakeFour(blocks) ==
    SeqPart(blocks, 1) \o SeqPart(blocks, 2) \o SeqPart(blocks, 3) \o SeqPart(blocks, 4)

PositionKey(pos) == TakeFour(split_whitespace(pos))

\* `hash_map.iter().any(|(_, &count)| count >= 3)`
AnyThrice(keys) ==
    \E i \in 1..Len(keys) : Cardinality({j \in 1..Len(keys) : keys[j] = keys[i]}) >= 3

threefold_repetition(b) ==
    AnyThrice([i \in 1..Len(b.position_history) |-> PositionKey(b.position_history[i])])

\* insufficient_material: the i-th square of `self.squares.iter().flatten()`
FlatSquare(b, i) == b.squares[i \div 8][i % 8]

\* insufficient_material: row_offset at index i, one more for every row ended
RowOffset(i) == Cardinality({j \in 1..i : j % 8 = 0})

\* the square colour without the row offset
BishopSquareColorNoOffset(i, row_offset) == IF i % 2 = 0 THEN White ELSE Black

\* `match (i + row_offset) % 2 { 0 => Color::White, _ => Color::Black }`
BishopSquareColor(i, row_offset) == IF (i + row_offset) % 2 = 0 THEN White ELSE Black

\* the indices of the squares holding a piece of the kind, in order
MaterialOfKind(b, kind) ==
    SelectSeq([n \in 1..64 |-> n - 1],
              LAMBDA i : IsSome(FlatSquare(b, i)) /\ Unwrap(FlatSquare(b, i)).kind = kind)

\* the `bishops` vector: the colour of each bishop's square
MaterialBishops(b) ==
    [n \in 1..Len(MaterialOfKind(b, "Bishop")) |->
        BishopSquareColor(MaterialOfKind(b, "Bishop")[n], RowOffset(MaterialOfKind(b, "Bishop")[n]))]

\* `bishops.windows(2).all(|c| c[0] == c[1])`
WindowsAllEqual(bishops) == \A n \in 1..(Len(bishops) - 1) : bishops[n] = bishops[n + 1]

\* the three tests of insufficient_material on the collected counts
MaterialVerdict(piece_count, bishops, knights) ==
    \/ piece_count = 2
    \/ piece_count = 3 /\ (Len(bishops) = 1 \/ knights = 1)
    \/ piece_count = Len(bishops) + 2 /\ WindowsAllEqual(bishops)

insufficient_material(b) ==
    MaterialVerdict(Cardinality({i \in 0..63 : IsSome(FlatSquare(b, i))}),
                    MaterialBishops(b), Len(MaterialOfKind(b, "Knight")))

\* self.legal_moves().contains(&move): the generated moves carry the source
\* and destination squares, the promotion and the castle kind
\* Piece::to_uci_char
to_uci_char(p) ==
    CASE p.kind = "Pawn" -> "p"   [] p.kind = "Knight" -> "n"
      [] p.kind = "Bishop" -> "b" [] p.kind = "Rook" -> "r"
      [] p.kind = "Queen" -> "q"  [] p.kind = "King" -> "k"

\* CastleKind::to_uci_str
castle_to_uci_str(castle, color) ==
    IF castle = Kingside THEN (IF color = White THEN "e1g1" ELSE "e8g8")
    ELSE (IF color = White THEN "e1c1" ELSE "e8c8")

\* Move::to_uci_str
to_uci_str(m) ==
    IF IsSome(m.castle) THEN castle_to_uci_str(Unwrap(m.castle), m.color)
    ELSE square_to_string(Unwrap(m.src_square)) \o "-" \o square_to_string(Unwrap(m.dst_square))
         \o (IF IsSome(m.promotion) THEN to_uci_char(Unwrap(m.promotion)) ELSE "")

\* Board::draw
draw(b) ==
    stalemate(b) \/ insufficient_material(b) \/ fifty_move_rule(b)
    \/ threefold_repetition(b)

contains(moves, m) ==
    \E i \in 1..Len(moves) :
        moves[i] = GenMove(m.src_square, m.dst_square, m.promotion, m.castle)

\* what a call leaves behind: the board, the returned Option<Move>, and
\* whether apply_move ran
Outcome(b, returned, ran) == [board |-> b, ret |-> returned, applied |-> ran]

\* the body of make_uci_move and make_san_move as it would be without the
\* membership test
ApplyUnchecked(b, m, moves) ==
    IF IsSome(m) THEN Outcome(apply_move(b, Unwrap(m)), m, TRUE)
    ELSE Outcome(b, m, FALSE)

\* `if let Some(ref move) = move { if self.legal_moves().contains(move) {
\* self.apply_move(move) } }  move`
ApplyIfLegal(b, m, moves) ==
    IF IsSome(m) /\ contains(moves, Unwrap(m))
    THEN Outcome(apply_move(b, Unwrap(m)), m, TRUE)
    ELSE Outcome(b, m, FALSE)

\* Board::make_uci_move; moves is self.legal_moves()
make_uci_move(b, uci_str, moves) == ApplyIfLegal(b, from_uci(uci_str, b), moves)

\* Board::make_san_move; moves is self.legal_moves()
make_san_move(b, algebraic_str, moves) == ApplyIfLegal(b, from_san(algebraic_str, b), moves)

\* the parsed move if it is a legal one
LegalOnly(m, moves) == IF IsSome(m) /\ contains(moves, Unwrap(m)) THEN m ELSE None

\* make_move, the SAN attempt and the final None
MakeSanAttempt(b, san) ==
    IF IsSome(san) THEN Outcome(apply_move(b, Unwrap(san)), san, TRUE)
    ELSE Outcome(b, None, FALSE)

\* make_move, the UCI attempt
MakeUciAttempt(b, uci, move_str, moves) ==
    IF IsSome(uci) THEN Outcome(apply_move(b, Unwrap(uci)), uci, TRUE)
    ELSE MakeSanAttempt(b, LegalOnly(from_san(move_str, b), moves))

\* Board::make_move; moves is self.legal_moves()
make_move(b, move_str, moves) ==
    MakeUciAttempt(b, LegalOnly(from_uci(move_str, b), moves), move_str, moves)

-----------------------------------------------------------------------------
(* The Board of board.rs, with the grid in `pieces` and the target in
   `en_passant`, and its make_move, which takes a Move of move.rs *)

\* the Move literals of move.rs
BoardRsMove(src_square, dst_square, en_passant, en_passant_capture, castle, promotion) ==
    [src_square |-> src_square, dst_square |-> dst_square, en_passant |-> en_passant,
     en_passant_capture |-> en_passant_capture, castle |-> castle, promotion |-> promotion]

\* board.rs Board::set_piece, for a square inside the board
BoardRsSetPiece(b, square, piece) ==
    [b EXCEPT !.pieces = [@ EXCEPT ![square[1]][square[2]] = piece]]

\* board.rs make_move: the en passant capture
BoardRsEnPassantCapture(b, m) ==
    IF m.en_passant_capture
    THEN BoardRsSetPiece(b, IF b.active_color = White
                            THEN <<Unwrap(b.en_passant)[1] + 1, Unwrap(b.en_passant)[2]>>
                            ELSE <<Unwrap(b.en_passant)[1] - 1, Unwrap(b.en_passant)[2]>>,
                         None)
    ELSE b

\* board.rs Board::update_castle_rights: the rights the `retain` calls drop
BoardRsRevoked(b, m) ==
    (IF IsSome(m.castle)
     THEN (IF b.active_color = White THEN WhiteRights ELSE BlackRights) ELSE {})
    \cup (IF m.src_square = None THEN {}
          ELSE CASE b.pieces[Unwrap(m.src_square)[1]][Unwrap(m.src_square)[2]]
                        = Some(King(White)) -> WhiteRights
                 [] b.pieces[Unwrap(m.src_square)[1]][Unwrap(m.src_square)[2]]
                        = Some(King(Black)) -> BlackRights
                 [] b.pieces[Unwrap(m.src_square)[1]][Unwrap(m.src_square)[2]]
                        = Some(Rook(White)) ->
                      (IF Unwrap(m.src_square) = <<7, 7>> THEN {WhiteKingside}
                       ELSE IF Unwrap(m.src_square) = <<7, 0>> THEN {WhiteQueenside} ELSE {})
                 [] b.pieces[Unwrap(m.src_square)[1]][Unwrap(m.src_square)[2]]
                        = Some(Rook(Black)) ->
                      (IF Unwrap(m.src_square) = <<0, 7>> THEN {BlackKingside}
                       ELSE IF Unwrap(m.src_square) = <<0, 0>> THEN {BlackQueenside} ELSE {})
                 [] OTHER -> {})

\* board.rs make_move: `// update the board state` and the fullmove number
BoardRsState(b, m) ==
    [b EXCEPT !.castle_rights = @ \ BoardRsRevoked(b, m),
              !.active_color = invert(@),
              !.en_passant = m.en_passant,
              !.halfmove_clock = @ + 1,
              !.fullmove_number = @ + (IF invert(b.active_color) = White THEN 1 ELSE 0)]

\* board.rs castle_kingside(color) and castle_queenside(color)
BoardRsCastle(b, kind, color) ==
    BoardRsSetPiece(
      BoardRsSetPiece(
        BoardRsSetPiece(
          BoardRsSetPiece(b, <<HomeRow(color), 4>>, None),
          <<HomeRow(color), IF kind = Kingside THEN 7 ELSE 0>>, None),
        <<HomeRow(color), IF kind = Kingside THEN 6 ELSE 2>>, Some(King(color))),
      <<HomeRow(color), IF kind = Kingside THEN 5 ELSE 3>>, Some(Rook(color)))

\* board.rs make_move: `// handle castling`
BoardRsCastleMove(b, m) ==
    IF IsSome(m.castle) THEN BoardRsCastle(b, Unwrap(m.castle), invert(b.active_color)) ELSE b

\* board.rs make_move: the reset of the halfmove clock
BoardRsClock(b, m, src_square_piece, dst_square_piece) ==
    IF \/ src_square_piece = Some(Pawn(invert(b.active_color)))
       \/ IsSome(dst_square_piece)
       \/ m.en_passant_capture
    THEN [b EXCEPT !.halfmove_clock = 0] ELSE b

\* board.rs make_move: the promotion or the move of the piece
BoardRsPlace(b, m, src_square_piece) ==
    IF IsSome(m.promotion)
    THEN BoardRsSetPiece(b, Unwrap(m.dst_square), m.promotion)
    ELSE BoardRsSetPiece(BoardRsSetPiece(b, Unwrap(m.dst_square), src_square_piece),
                         Unwrap(m.src_square), None)

\* board.rs make_move: `// handle normal move and promotion`, up to the test
\* of the clock
BoardRsSquares(b, m) ==
    IF IsSome(m.src_square) /\ IsSome(m.dst_square)
    THEN BoardRsPlace(
            BoardRsClock(b, m, b.pieces[Unwrap(m.src_square)[1]][Unwrap(m.src_square)[2]],
                         b.pieces[Unwrap(m.dst_square)[1]][Unwrap(m.dst_square)[2]]),
            m, b.pieces[Unwrap(m.src_square)[1]][Unwrap(m.src_square)[2]])
    ELSE b

\* the board make_move leaves
BoardRsMoved(b, m) ==
    BoardRsSquares(BoardRsCastleMove(BoardRsState(BoardRsEnPassantCapture(b, m), m), m), m)

\* board.rs make_move: `if self.halfmove_clock >= 50 { println!("Draw by 50-move
\* rule"); std::process::exit(0); }`, which is inside the `if let` of the squares
BoardRsExits(moved, m) ==
    IsSome(m.src_square) /\ IsSome(m.dst_square) /\ moved.halfmove_clock >= 50

\* board.rs Board::make_move: the board it leaves, what it printed and whether
\* it ended the process
board_rs_make_move(b, m) ==
    [board |-> BoardRsMoved(b, m),
     printed |-> IF BoardRsExits(BoardRsMoved(b, m), m) THEN <<"Draw by 50-move rule">> ELSE <<>>,
     exited |-> BoardRsExits(BoardRsMoved(b, m), m)]

-----------------------------------------------------------------------------
(* The state machine: a Board and the calls made on it *)

\* the Board the variables hold
Board ==
    [squares |-> squares, active_color |-> active_color,
     castle_rights |-> castle_rights, en_passant_target |-> en_passant_target,
     halfmove_clock |-> halfmove_clock, fullmove_number |-> fullmove_number,
     position_history |-> position_history]


\* the number of moves applied in a run
MaxPly == 3

\* the number of moves applied in a run of king shuffles
MaxShuffle == 9

\* Board::from_fen inputs
InitFens ==
    { FEN_STARTING_POSITION,
      "rnbqkbnr/1pp1pppp/p7/3pP3/8/8/PPPP1PPP/RNBQKBNR w KQkq d6 0 3",
      "r3k2r/8/8/8/4R3/8/8/4K3 b kq - 0 1",
      "r3k2r/8/8/8/8/8/8/R3K2R w KQkq - 49 40",
      "4k3/8/8/8/8/8/8/4K2R w K - 99 80",
      "4k3/8/8/8/3p4/8/4P3/4K3 w - - 0 1",
      "8/5pk1/6p1/8/5P1Q/1b6/q7/K7 w - - 12 50",
      "8/7p/8/8/1p6/5k2/5p2/5K2 w - - 4 56" }

\* the move texts the callers pass
MoveTexts ==
    { "e2e4", "e2e5", "e7-e5", "e5d6", "e8g8", "e1g1", "h1h8",
      "e4", "exd6", "O-O", "O-O-O", "Kf1", "Kf8", "Ra2", "zz" }

\* a position whose FEN names an en passant target, and the king moves that
\* shuffle both kings out and back
ShuffleFens == { "4k3/8/8/3pP3/8/8/8/4K3 w - d6 0 1" }

ShuffleTexts == { "Kf1", "Ke1", "Kd1", "Kf8", "Ke8", "Kd8" }

InitFrom(fens) ==
    \E fen_str \in fens :
        LET b == Unwrap(fen_to_board(fen_str)) IN
        /\ squares = b.squares
        /\ active_color = b.active_color
        /\ castle_rights = b.castle_rights
        /\ en_passant_target = b.en_passant_target
        /\ halfmove_clock = b.halfmove_clock
        /\ fullmove_number = b.fullmove_number
        /\ position_history = b.position_history
        /\ ret = None
        /\ applied = FALSE
        /\ last_op = "from_fen"
        /\ observed = <<b>>

Init == InitFrom(InitFens)

InitShuffle == InitFrom(ShuffleFens)

\* the state a call leaves
Call(op, out) ==
    /\ squares' = out.board.squares
    /\ active_color' = out.board.active_color
    /\ castle_rights' = out.board.castle_rights
    /\ en_passant_target' = out.board.en_passant_target
    /\ halfmove_clock' = out.board.halfmove_clock
    /\ fullmove_number' = out.board.fullmove_number
    /\ position_history' = out.board.position_history
    /\ ret' = out.ret
    /\ applied' = out.applied
    /\ last_op' = op
    /\ observed' = IF out.applied THEN Append(observed, out.board) ELSE observed

MakeMove ==
    /\ Len(position_history) < MaxPly
    /\ \E moves \in {legal_moves(Board)} :
        \E move_str \in MoveTexts :
            Call("make_move", make_move(Board, move_str, moves))

MakeUciMove ==
    /\ Len(position_history) < MaxPly
    /\ \E moves \in {legal_moves(Board)} :
        \E uci_str \in MoveTexts :
            Call("make_uci_move", make_uci_move(Board, uci_str, moves))

MakeSanMove ==
    /\ Len(position_history) < MaxPly
    /\ \E moves \in {legal_moves(Board)} :
        \E algebraic_str \in MoveTexts :
            Call("make_san_move", make_san_move(Board, algebraic_str, moves))

Next == MakeMove \/ MakeUciMove \/ MakeSanMove

Spec == Init /\ [][Next]_vars

\* make_move called with king moves only, for long runs of repeated positions
ShuffleMove ==
    /\ Len(position_history) < MaxShuffle
    /\ \E moves \in {legal_moves(Board)} :
        \E move_str \in ShuffleTexts :
            Call("make_move", make_move(Board, move_str, moves))

NextShuffle == ShuffleMove

SpecShuffle == InitShuffle /\ [][NextShuffle]_vars

\* the number of moves applied in a run that changes the material
MaxMaterialPly == 2

\* positions with little material, the pieces within a1..d4
MaterialFens ==
    { "8/8/8/8/k7/8/8/K7 w - - 0 1",
      "8/8/8/8/k7/2b5/1B6/K7 w - - 0 1",
      "8/8/8/8/k7/8/1Bb5/K7 w - - 0 1",
      "8/8/8/8/k7/8/1Bb5/K7 b - - 0 1",
      "8/8/8/8/k7/2B5/1B6/K7 w - - 0 1",
      "8/8/8/8/1k6/3b4/1BB5/K7 w - - 0 1",
      "8/8/8/8/k2b4/2B5/1B6/K7 b - - 0 1",
      "8/8/8/8/1k6/8/1N6/K1n5 w - - 0 1",
      "8/8/8/8/k7/3n4/1N6/K1N5 b - - 0 1",
      "8/8/8/8/k7/2b5/1N6/K7 b - - 0 1",
      "8/8/8/8/k7/2r5/8/K2R4 w - - 0 1",
      "8/8/8/8/k7/2p5/3P4/K7 w - - 0 1",
      "8/8/8/8/k2q4/8/8/1K1B4 b - - 0 1",
      "8/8/8/8/1k6/8/1b1B4/1K6 b - - 0 1",
      "8/8/8/8/k2n4/2B5/Kb6/8 w - - 0 1",
      "8/8/8/8/k7/8/1n1N4/K7 w - - 0 1" }

\* every "<src><dst>" text over the squares a1..d4
MaterialSquares == {<<row, col>> : row \in 4..7, col \in 0..3}

MaterialTexts ==
    {square_to_string(src) \o square_to_string(dst) : src \in MaterialSquares, dst \in MaterialSquares}

InitMaterial == InitFrom(MaterialFens)

\* make_move called with coordinate texts, captures changing the material
MaterialMove ==
    /\ Len(position_history) < MaxMaterialPly
    /\ \E moves \in {legal_moves(Board)} :
        \E move_str \in MaterialTexts :
            Call("make_move", make_move(Board, move_str, moves))

NextMaterial == MaterialMove

SpecMaterial == InitMaterial /\ [][NextMaterial]_vars

\* the number of moves applied in a run of piece moves given in SAN
MaxSanPly == 3

\* positions in which two pieces of a kind reach one square, one of them is
\* pinned, or a piece stands further along a knight's direction
SanFens ==
    { "4k3/8/8/8/8/8/8/1N2KN2 w - - 0 1",
      "k3r3/8/8/8/4N3/8/8/1N2K3 w - - 0 1",
      "7k/8/1N6/8/8/8/8/4K3 w - - 0 1",
      "4k3/8/8/8/8/8/4K3/R6R w - - 0 1",
      "1n2kn2/8/8/8/8/8/8/4K3 b - - 0 1",
      "4k3/8/8/8/8/8/Q7/3QK3 w - - 0 1" }

\* non-pawn SAN texts without and with a file, rank or square disambiguator;
\* none names the square of the mover's own king, where future_check would
\* take the king off the board and king_square reach its unreachable!()
SanTexts ==
    { "Nd2", "Nbd2", "Nfd2", "N1d2", "Nb1d2", "Nd7", "Nbd7", "Rd1", "Rad1", "Rhd1",
      "Qb3", "Qab3", "Qdb3", "Kf2", "Kd8", "Ke7" }

InitSan == InitFrom(SanFens)

\* make_san_move called with the piece texts
ResolveSan ==
    /\ Len(position_history) < MaxSanPly
    /\ \E moves \in {legal_moves(Board)} :
        \E algebraic_str \in SanTexts :
            Call("make_san_move", make_san_move(Board, algebraic_str, moves))

NextSan == ResolveSan

SpecSan == InitSan /\ [][NextSan]_vars

\* the number of moves applied in a run of moves given in UCI notation
MaxUciPly == 3

\* positions with castles, a double step and a promotion at hand
UciFens ==
    { FEN_STARTING_POSITION,
      "r3k2r/8/8/8/8/8/8/R3K2R w KQkq - 0 1",
      "4k3/P7/8/8/8/8/8/4K3 w - - 0 1" }

\* the squares, promotion letters and texts the callers pass, the texts with
\* and without the separator
UciSquares == {"a7", "a8", "c1", "e1", "e2", "e4", "e7", "e5", "e8", "g1", "g8"}

UciPromotions == {"", "q", "r", "b", "n"}

UciTexts ==
    { "e2e4", "e2-e4", "e7e5", "e7-e5", "e1g1", "e1-g1", "e8c8", "e8-c8",
      "a7a8q", "a7-a8n", "a7a8", "e1-e2", "e8e7", "e2-e5", "e1c1", "e8-g8" }

InitUci == InitFrom(UciFens)

\* make_uci_move called with the texts
UciCall ==
    /\ Len(position_history) < MaxUciPly
    /\ \E moves \in {legal_moves(Board)} :
        \E uci_str \in UciTexts :
            Call("make_uci_move", make_uci_move(Board, uci_str, moves))

NextUci == UciCall

SpecUci == InitUci /\ [][NextUci]_vars

\* A caller of parse_fen: every call hands it one text, built from a placement,
\* a color, the castling rights, an en passant square and the two clocks.
MaxFenClock == 2

GoodPlacements ==
    { "rnbqkbnr/pppppppp/8/8/8/8/PPPPPPPP/RNBQKBNR",
      "4k3/8/8/8/8/8/8/4K3",
      "r3k2r/8/8/8/8/8/8/R3K2R",
      "4k3/8/8/3pP3/8/8/8/4K3" }

BadPlacements ==
    { "4k3/8/8/8/8/8/4K3",
      "4k3/8/8/8/8/8/8/8/4K3",
      "4k3/8/8/7/8/8/8/4K3",
      "4k3/8/8/9/8/8/8/4K3",
      "4k3/ppppppppp/8/8/8/8/8/4K3",
      "4k3/8/8/8/8/8/8/4K4",
      "4k3/8/8/8/8/8/8/4K3P",
      "4k3/8/8/8/8/8/8/RNBQKBNRP",
      "4k3/8/8/8/8/8/8/8",
      "8/8/8/8/8/8/8/4K3",
      "8/8/8/8/8/8/8/8",
      "4k3/8/8/8/8/8/8/P3K3",
      "p3k3/8/8/8/8/8/8/4K3",
      "4k3/44/8/8/8/8/8/4K3" }

FenText(placement, color, rights, target, half, full) ==
    placement \o " " \o color \o " " \o rights \o " " \o target \o " " \o half \o " " \o full

FenTexts ==
    {FenText(p, c, r, "-", NatToStr(h), "1") :
        p \in GoodPlacements, c \in {"w", "b"}, r \in {"-", "KQkq", "Kq"}, h \in 0..MaxFenClock}
    \cup {FenText(p, "w", "-", "-", "0", "1") : p \in BadPlacements}
    \cup {FenText("4k3/8/8/3pP3/8/8/8/4K3", c, "-", e, "0", "1") :
            c \in {"w", "b", "x", "W"}, e \in {"d6", "d3", "d4", "d9", "z3", "d66", "d", "a", "-"}}
    \cup {FenText("r3k2r/8/8/8/8/8/8/R3K2R", "w", r, "-", h, f) :
            r \in {"KQkx", "qkQK", "KK"}, h \in {"0", "x", "1x"}, f \in {"1", "y", "12"}}
    \cup { "",
           "4k3/8/8/8/8/8/8/4K3 w -",
           "4k3/8/8/8/8/8/8/4K3 w - -",
           "4k3/8/8/8/8/8/8/4K3 w - - 7",
           "4k3/8/8/8/8/8/8/4K3 w - - 0 1 1" }

InitFen == InitFrom({FEN_STARTING_POSITION})

\* parse_fen called with one of the texts: it builds a Board of its own or
\* fails, and the Board of the caller stays as it is
ParseFen ==
    \E fen_str \in FenTexts :
        /\ ret' = [fen_str |-> fen_str, result |-> parse_fen(fen_str)]
        /\ last_op' = "parse_fen"
        /\ applied' = FALSE
        /\ UNCHANGED <<squares, active_color, castle_rights, en_passant_target,
                       halfmove_clock, fullmove_number, position_history, observed>>

NextFen == ParseFen

SpecFen == InitFen /\ [][NextFen]_vars

\* A game from the starting position played with texts that name pawn, knight,
\* queen and king moves, some of them onto the squares of the kings.
MaxKingPly == 3

KingTexts ==
    { "e4", "e5", "d4", "d5", "Nf3", "Nf6", "Qe2", "Qe7", "Ke2", "Ke7", "Qe1", "Qe8" }

InitKing == InitFrom({FEN_STARTING_POSITION})

\* the program ended by the panic of king_square
KingMissingPanic == "king_square: unreachable!()"

\* a call that panics: nothing is returned and the board is as it was
Panics(b) == Call(KingMissingPanic, Outcome(b, None, FALSE))

\* make_san_move: from_san runs first, and may panic
KingSanMove ==
    /\ Len(position_history) < MaxKingPly
    /\ last_op # KingMissingPanic
    /\ \E moves \in {legal_moves(Board)} :
        \E algebraic_str \in KingTexts :
            IF SanPanics(algebraic_str, Board) THEN Panics(Board)
            ELSE Call("make_san_move", make_san_move(Board, algebraic_str, moves))

\* make_move: from_san runs when the UCI attempt applied nothing
KingMakeMove ==
    /\ Len(position_history) < MaxKingPly
    /\ last_op # KingMissingPanic
    /\ \E moves \in {legal_moves(Board)} :
        \E move_str \in KingTexts :
            IF LegalOnly(from_uci(move_str, Board), moves) = None /\ SanPanics(move_str, Board)
            THEN Panics(Board)
            ELSE Call("make_move", make_move(Board, move_str, moves))

NextKing == KingSanMove \/ KingMakeMove

SpecKing == InitKing /\ [][NextKing]_vars

-----------------------------------------------------------------------------
(* The rules of chess stated over the grid, without the walks of the program:
   which squares a piece attacks, which moves a side may make, and what a move
   does to the grid. The claims compare the program with these. *)

Squares == Rows \X Rows

PieceAt(grid, sq) == grid[sq[1]][sq[2]]

Sign(x) == IF x > 0 THEN 1 ELSE IF x < 0 THEN 0 - 1 ELSE 0

Distance(from, to) ==
    IF Abs(to[1] - from[1]) > Abs(to[2] - from[2])
    THEN Abs(to[1] - from[1]) ELSE Abs(to[2] - from[2])

\* from and to lie on one row, column or diagonal
Straight(from, to) == from # to /\ (from[1] = to[1] \/ from[2] = to[2])
Diagonal(from, to) == from # to /\ Abs(to[1] - from[1]) = Abs(to[2] - from[2])

\* every square strictly between from and to is empty
ClearBetween(grid, from, to) ==
    \A k \in 1..(Distance(from, to) - 1) :
        PieceAt(grid, <<from[1] + k * Sign(to[1] - from[1]),
                        from[2] + k * Sign(to[2] - from[2])>>) = None

\* the row step of a pawn: White pawns move towards row 0
Forward(color) == IF color = White THEN 0 - 1 ELSE 1

\* the piece p standing on from attacks the square to
RuleAttacksAs(grid, p, from, to) ==
    CASE p.kind = "Pawn" ->
            to[1] = from[1] + Forward(p.color) /\ Abs(to[2] - from[2]) = 1
      [] p.kind = "Knight" ->
            {Abs(to[1] - from[1]), Abs(to[2] - from[2])} = {1, 2}
      [] p.kind = "King" -> from # to /\ Distance(from, to) = 1
      [] p.kind = "Rook" -> Straight(from, to) /\ ClearBetween(grid, from, to)
      [] p.kind = "Bishop" -> Diagonal(from, to) /\ ClearBetween(grid, from, to)
      [] p.kind = "Queen" ->
            (Straight(from, to) \/ Diagonal(from, to)) /\ ClearBetween(grid, from, to)

\* some piece of the color by attacks the square sq
RuleAttacked(grid, sq, by) ==
    \E from \in Squares :
        /\ IsSome(PieceAt(grid, from))
        /\ Unwrap(PieceAt(grid, from)).color = by
        /\ RuleAttacksAs(grid, Unwrap(PieceAt(grid, from)), from, sq)

\* the king of the color is attacked by an enemy piece
RuleInCheck(grid, color) ==
    \E sq \in Squares :
        PieceAt(grid, sq) = Some(King(color)) /\ RuleAttacked(grid, sq, invert(color))

OwnPiece(grid, sq, color) ==
    IsSome(PieceAt(grid, sq)) /\ Unwrap(PieceAt(grid, sq)).color = color

PawnHomeRow(color) == IF color = White THEN 6 ELSE 1
LastRow(color) == IF color = White THEN 0 ELSE 7

\* a pawn of the color may go from from to to, king safety aside
RulePawnStep(b, from, to) ==
    \/ /\ to = <<from[1] + Forward(b.active_color), from[2]>>
       /\ PieceAt(b.squares, to) = None
    \/ /\ from[1] = PawnHomeRow(b.active_color)
       /\ to = <<from[1] + 2 * Forward(b.active_color), from[2]>>
       /\ PieceAt(b.squares, to) = None
       /\ PieceAt(b.squares, <<from[1] + Forward(b.active_color), from[2]>>) = None
    \/ /\ to[1] = from[1] + Forward(b.active_color)
       /\ Abs(to[2] - from[2]) = 1
       /\ \/ OwnPiece(b.squares, to, invert(b.active_color))
          \/ b.en_passant_target = Some(to)

\* a piece of the side to move may go from from to to, king safety aside
RuleStep(b, from, to) ==
    /\ OwnPiece(b.squares, from, b.active_color)
    /\ ~OwnPiece(b.squares, to, b.active_color)
    /\ IF Unwrap(PieceAt(b.squares, from)).kind = "Pawn"
       THEN RulePawnStep(b, from, to)
       ELSE RuleAttacksAs(b.squares, Unwrap(PieceAt(b.squares, from)), from, to)

\* the pawn an en passant capture from from to to removes, if it is one
RuleEnPassant(b, from, to) ==
    /\ PieceAt(b.squares, from) = Some(Pawn(b.active_color))
    /\ b.en_passant_target = Some(to)
    /\ from[2] # to[2]

\* the grid after the piece on from has gone to to
RuleGridAfter(b, from, to, promotion) ==
    [r \in Rows |-> [c \in Rows |->
        IF <<r, c>> = to
        THEN (IF IsSome(promotion) THEN promotion ELSE PieceAt(b.squares, from))
        ELSE IF <<r, c>> = from THEN None
        ELSE IF RuleEnPassant(b, from, to) /\ <<r, c>> = <<from[1], to[2]>> THEN None
        ELSE b.squares[r][c]]]

\* the promotions a step allows: the four pieces on the last row, none before it
RulePromotions(b, from, to) ==
    IF PieceAt(b.squares, from) = Some(Pawn(b.active_color))
       /\ to[1] = LastRow(b.active_color)
    THEN { Some(Piece(k, b.active_color)) : k \in {"Queen", "Rook", "Bishop", "Knight"} }
    ELSE { None }

PromotionOptions(color) ==
    {None} \cup { Some(Piece(k, color)) : k \in {"Queen", "Rook", "Bishop", "Knight"} }

\* the piece on from may go to to with the promotion and leaves the mover's
\* king unattacked
RuleLegalStep(b, from, to, promotion) ==
    /\ RuleStep(b, from, to)
    /\ promotion \in RulePromotions(b, from, to)
    /\ ~RuleInCheck(RuleGridAfter(b, from, to, promotion), b.active_color)

\* castling: the right is held, the squares between king and rook are empty,
\* and the king neither stands on, passes nor lands on an attacked square
RuleCastle(b, right, rook_col, king_cols) ==
    /\ right \in b.castle_rights
    /\ ClearBetween(b.squares, <<HomeRow(b.active_color), 4>>,
                    <<HomeRow(b.active_color), rook_col>>)
    /\ ~RuleAttacked(b.squares, <<HomeRow(b.active_color), 4>>, invert(b.active_color))
    /\ \A c \in king_cols :
        ~RuleAttacked(b.squares, <<HomeRow(b.active_color), c>>, invert(b.active_color))

RuleLegalCastle(b, kind) ==
    IF kind = Kingside
    THEN RuleCastle(b, IF b.active_color = White THEN WhiteKingside ELSE BlackKingside,
                    7, {5, 6})
    ELSE RuleCastle(b, IF b.active_color = White THEN WhiteQueenside ELSE BlackQueenside,
                    0, {2, 3})

\* the generated move gm is legal under the rules of chess
RuleLegal(b, gm) ==
    IF IsSome(gm.castle)
    THEN /\ gm.src_square = None /\ gm.dst_square = None /\ gm.promotion = None
         /\ RuleLegalCastle(b, Unwrap(gm.castle))
    ELSE /\ IsSome(gm.src_square) /\ IsSome(gm.dst_square)
         /\ RuleLegalStep(b, Unwrap(gm.src_square), Unwrap(gm.dst_square), gm.promotion)

\* every move of moves is legal under the rules
NoIllegalMove(b, moves) == \A i \in 1..Len(moves) : RuleLegal(b, moves[i])

\* every move legal under the rules is among moves
NoMissingMove(b, moves) ==
    /\ \A from \in Squares : \A to \in Squares :
        \A promotion \in PromotionOptions(b.active_color) :
            RuleLegalStep(b, from, to, promotion)
                => contains(moves, GenMove(Some(from), Some(to), promotion, None))
    /\ \A kind \in {Kingside, Queenside} :
        RuleLegalCastle(b, kind) => contains(moves, GenMove(None, None, None, Some(kind)))

\* Games of the Board of board.rs that begin late in a run of quiet moves:
\* make_move is called with the moves move.rs builds for the legal pushes,
\* piece moves and castles of the position.
MaxDrawPly == 2

DrawFens ==
    { "4k3/8/8/8/8/8/8/4K2R w K - 48 80",
      "4k3/4p3/8/8/8/8/4P3/4K3 w - - 49 60",
      "r3k3/8/8/8/8/8/8/4K3 b q - 47 70" }

InitDraw == InitFrom(DrawFens)

\* the Board of board.rs the variables hold
BoardRs ==
    [pieces |-> squares, active_color |-> active_color, castle_rights |-> castle_rights,
     en_passant |-> en_passant_target, halfmove_clock |-> halfmove_clock,
     fullmove_number |-> fullmove_number]

\* the Move literals of piece_move, pawn_move and castle of move.rs for the
\* legal moves of the position
BoardRsMoves ==
    {BoardRsMove(Some(p[1]), Some(p[2]), None, FALSE, None, None) :
        p \in {q \in Squares \X Squares :
                /\ OwnPiece(squares, q[1], active_color)
                /\ Unwrap(PieceAt(squares, q[1])).kind # "Pawn"
                /\ RuleLegalStep(Board, q[1], q[2], None)}}
    \cup {BoardRsMove(Some(p[1]), Some(p[2]),
                      IF Abs(p[2][1] - p[1][1]) = 2
                      THEN Some(<<p[2][1] - Forward(active_color), p[2][2]>>) ELSE None,
                      FALSE, None, None) :
            p \in {q \in Squares \X Squares :
                    /\ PieceAt(squares, q[1]) = Some(Pawn(active_color))
                    /\ q[1][2] = q[2][2]
                    /\ q[2][1] # LastRow(active_color)
                    /\ RuleLegalStep(Board, q[1], q[2], None)}}
    \cup {BoardRsMove(None, None, None, FALSE, Some(kind), None) :
            kind \in {k \in {Kingside, Queenside} : RuleLegalCastle(Board, k)}}

\* the process ended by std::process::exit
ProcessExit == "std::process::exit(0)"

\* board.rs make_move called with one of the moves; ret holds the lines printed
BoardRsMakeMove ==
    /\ Len(observed) <= MaxDrawPly
    /\ last_op # ProcessExit
    /\ \E m \in BoardRsMoves :
        \E out \in {board_rs_make_move(BoardRs, m)} :
            Call(IF out.exited THEN ProcessExit ELSE "board_rs_make_move",
                 Outcome([squares |-> out.board.pieces,
                          active_color |-> out.board.active_color,
                          castle_rights |-> out.board.castle_rights,
                          en_passant_target |-> out.board.en_passant,
                          halfmove_clock |-> out.board.halfmove_clock,
                          fullmove_number |-> out.board.fullmove_number,
                          position_history |-> position_history],
                         out.printed, TRUE))

NextDraw == BoardRsMakeMove

SpecDraw == InitDraw /\ [][NextDraw]_vars

\* the depth of the random game
MaxGamePly == 1

\* positions with promotions by push and by capture, a pinned pawn before the
\* last rank, pawns on and off their home rank, castles, pieces on e1 and e8
\* that are not castling kings, an en passant target, and doubled sliders,
\* off and on the king's file, and a knight next to an en passant target
GameFens ==
    { "1n2k3/P1P4P/8/8/8/8/8/4K3 w - - 0 1",
      "5b2/r5PK/8/8/8/8/8/4k3 w - - 0 1",
      "4k3/8/8/8/8/8/p1p5/1N2K3 b - - 0 1",
      "4k3/pp1p4/1P6/8/2p5/3p4/P1PPP3/4K3 w - - 0 1",
      "r3k2r/8/8/8/8/8/8/R3K2R w KQkq - 0 1",
      "4k3/8/8/8/8/8/8/K3R3 w - - 0 1",
      "4q3/8/8/8/8/8/8/K6k b - - 0 1",
      "4k3/8/8/3pP3/8/8/8/4K3 w - d6 0 1",
      "q3r2k/1b2r3/8/8/8/8/8/1K4R1 w - - 0 1",
      "4r2k/4r3/8/8/8/8/8/4K3 w - - 0 1",
      "4k3/8/8/3pP3/2N5/8/8/4K3 w - d6 0 1" }

InitGame == InitFrom(GameFens)

\* one round of the loop of random_game: the game goes on unless it is
\* checkmate or a draw, and one of the legal moves is played by its UCI text
PlayLegalMove ==
    /\ Len(observed) <= MaxGamePly
    /\ ~checkmate(Board)
    /\ ~draw(Board)
    /\ \E moves \in {legal_moves(Board)} :
        \E i \in 1..Len(moves) :
            \E move_str \in {to_uci_str(ToMove(Board, moves[i]))} :
                Call("make_move", make_move(Board, move_str, moves))

NextGame == PlayLegalMove

SpecGame == InitGame /\ [][NextGame]_vars

\* the number of moves played from the starting position
MaxOpeningPly == 3

\* opening moves of both sides, as UCI and as SAN texts: pawns and pieces on
\* the edge files, double steps, captures, a rook lift and a king move
OpeningTexts ==
    { "a2a4", "h2-h4", "e4", "Nf3", "Na3",
      "a7a5", "h7-h5", "d5", "Nf6", "Nh6",
      "exd5", "a4a5", "Ra3", "Ke2", "Ng5", "zz" }

InitOpening == InitFrom({FEN_STARTING_POSITION})

\* make_move called with one of the texts
OpeningMove ==
    /\ Len(position_history) < MaxOpeningPly
    /\ \E moves \in {legal_moves(Board)} :
        \E move_str \in OpeningTexts :
            Call("make_move", make_move(Board, move_str, moves))

NextOpening == OpeningMove

SpecOpening == InitOpening /\ [][NextOpening]_vars

\* the number of moves played in a run of repeated positions
MaxRepeatPly == 10

\* two kings with room to go back and forth, and two pawns that can push or
\* capture one another
RepeatFens == { "4k3/8/8/3p4/4P3/8/8/4K3 w - - 0 1" }

RepeatTexts == { "Kf1", "Ke1", "Kf8", "Ke8", "exd5", "dxe4", "e5", "d4", "zz" }

InitRepeat == InitFrom(RepeatFens)

\* make_move called with a king move, a pawn push, a capture or no move
RepeatMove ==
    /\ Len(position_history) < MaxRepeatPly
    /\ \E moves \in {legal_moves(Board)} :
        \E move_str \in RepeatTexts :
            Call("make_move", make_move(Board, move_str, moves))

NextRepeat == RepeatMove

SpecRepeat == InitRepeat /\ [][NextRepeat]_vars

-----------------------------------------------------------------------------
(* The claims *)

\* the board as it stood when the last entry point was called
Before ==
    IF applied THEN observed[Len(observed) - 1] ELSE observed[Len(observed)]

\* the move the last entry point returned
LastMove == Unwrap(ret)

\* the last call applied a move of a piece from one square to another
MovedPiece == applied /\ IsSome(ret) /\ LastMove.castle = None

LastSrc == Unwrap(LastMove.src_square)
LastDst == Unwrap(LastMove.dst_square)

\* C1: a call of make_move, make_san_move or make_uci_move whose text resolves
\* to no move, or to a move that is not in legal_moves(), applies nothing and
\* leaves every field of the board, and so its FEN, as it was
RejectedCallChangesNothing ==
    last_op # "from_fen" =>
        \A moves \in {legal_moves(Before)} :
            (ret = None \/ ~contains(moves, LastMove))
                => /\ ~applied
                   /\ Board = Before
                   /\ board_to_fen(Board) = board_to_fen(Before)

\* a call has returned a well-formed move that was not legal
RejectedCallWitness ==
    /\ last_op \in {"make_uci_move", "make_san_move"}
    /\ IsSome(ret)
    /\ ~applied
    /\ ~contains(legal_moves(Board), LastMove)

\* C2: applying any move of legal_moves() leaves the king of the side that
\* moved unattacked, and after every applied move the side that is not to move
\* is not in check
LegalMovesKeepKingSafe ==
    /\ \A moves \in {legal_moves(Board)} :
        \A i \in 1..Len(moves) :
            \A after \in {apply_move(Board, ToMove(Board, moves[i]))} :
                ~RuleInCheck(after.squares, active_color)
    /\ applied => ~RuleInCheck(squares, invert(active_color))

\* a move has been applied by a side that was in check
LegalMovesKeepKingSafeWitness ==
    /\ applied
    /\ RuleInCheck(Before.squares, Before.active_color)
    /\ ~RuleInCheck(squares, Before.active_color)

\* C3: legal_moves() returns exactly the moves that are legal under the rules
\* of chess, 20 of them in the starting position
LegalMovesAreTheRules ==
    \A moves \in {legal_moves(Board)} :
        /\ NoIllegalMove(Board, moves)
        /\ NoMissingMove(Board, moves)
        /\ board_to_fen(Board) = FEN_STARTING_POSITION => Len(moves) = 20

\* C4: make_uci_move and make_san_move return None whenever they apply
\* nothing, so a returned move is one that was applied
ReturnedMoveWasApplied ==
    (last_op \in {"make_uci_move", "make_san_move"} /\ IsSome(ret)) => applied

\* C5: the castling rights after a call are a subset of the rights before it
CastleRightsOnlyShrink == [][castle_rights' \subseteq castle_rights]_vars

\* an applied move has revoked a castling right
CastleRightsWitness ==
    /\ applied
    /\ castle_rights # Before.castle_rights
    /\ castle_rights \subseteq Before.castle_rights

\* the last move was a pawn's two-row step from its home row, and a pawn of the
\* side now to move stands beside its destination
DoubleStepBesidePawn ==
    /\ MovedPiece
    /\ LastMove.piece = Some(Pawn(Before.active_color))
    /\ LastSrc[1] = PawnHomeRow(Before.active_color)
    /\ LastDst = <<LastSrc[1] + 2 * Forward(Before.active_color), LastSrc[2]>>
    /\ \E c \in {LastDst[2] - 1, LastDst[2] + 1} \cap Rows :
        PieceAt(squares, <<LastDst[1], c>>) = Some(Pawn(active_color))

\* the square the pawn of the last move passed over
PassedOver == <<LastSrc[1] + Forward(Before.active_color), LastSrc[2]>>

\* C6: after a pawn's double step beside an enemy pawn the en passant target
\* is the square passed over, and the capture onto it is a legal move
DoubleStepSetsTarget ==
    DoubleStepBesidePawn =>
        /\ en_passant_target = Some(PassedOver)
        /\ \E moves \in {legal_moves(Board)} :
            \E i \in 1..Len(moves) :
                /\ moves[i].dst_square = Some(PassedOver)
                /\ IsSome(moves[i].src_square)
                /\ Unwrap(moves[i].src_square)[1] = LastDst[1]
                /\ Unwrap(moves[i].src_square)[2] # LastDst[2]

\* the last move was a pawn's capture onto the en passant target
EnPassantCaptured ==
    /\ MovedPiece
    /\ LastMove.piece = Some(Pawn(Before.active_color))
    /\ Before.en_passant_target = LastMove.dst_square
    /\ LastSrc[2] # LastDst[2]

\* C7: an en passant capture removes the enemy pawn on the target's file and
\* the capturing pawn's source row, puts the capturing pawn on the target and
\* empties its source square; no other square changes
EnPassantRemovesPassedPawn ==
    EnPassantCaptured =>
        /\ PieceAt(Before.squares, <<LastSrc[1], LastDst[2]>>)
              = Some(Pawn(invert(Before.active_color)))
        /\ PieceAt(squares, <<LastSrc[1], LastDst[2]>>) = None
        /\ PieceAt(squares, LastDst) = Some(Pawn(Before.active_color))
        /\ PieceAt(squares, LastSrc) = None
        /\ \A sq \in Squares \ {LastSrc, LastDst, <<LastSrc[1], LastDst[2]>>} :
            PieceAt(squares, sq) = PieceAt(Before.squares, sq)

\* an en passant capture has been applied
EnPassantWitness ==
    /\ EnPassantCaptured
    /\ PieceAt(Before.squares, LastDst) = None
    /\ PieceAt(squares, <<LastSrc[1], LastDst[2]>>) = None

\* C8: check() is true iff the king of the side to move is attacked,
\* checkmate() iff it is and there is no legal move, stalemate() iff it is not
\* and there is no legal move, and the last two are never both true
CheckStatesAgree ==
    \A moves \in {legal_moves(Board)} :
        /\ check(Board) <=> RuleInCheck(squares, active_color)
        /\ checkmate(Board) <=> (RuleInCheck(squares, active_color) /\ moves = <<>>)
        /\ stalemate(Board) <=> (~RuleInCheck(squares, active_color) /\ moves = <<>>)
        /\ ~(checkmate(Board) /\ stalemate(Board))

\* an applied move has put the side to move in check, with a way out
CheckWitness ==
    /\ applied
    /\ check(Board)
    /\ ~checkmate(Board)
    /\ ~stalemate(Board)

\* C9: fifty_move_rule() is true exactly when the halfmove clock is at least 100
FiftyMoveRuleAtHundred == fifty_move_rule(Board) <=> halfmove_clock >= 100

\* piece placement, side to move, castling rights and en passant field
PositionOf(b) == <<b.squares, b.active_color, b.castle_rights, b.en_passant_target>>

\* the positions the applied moves have brought about, in order
Occurred == [i \in 1..(Len(observed) - 1) |-> PositionOf(observed[i + 1])]

\* some position has been brought about three times
OccurredThrice ==
    \E i \in 1..Len(Occurred) :
        Cardinality({j \in 1..Len(Occurred) : Occurred[j] = Occurred[i]}) >= 3

\* C10: threefold_repetition() is true once the applied moves have brought
\* about some position for the third time, and false before
ThreefoldOnThirdOccurrence == threefold_repetition(Board) <=> OccurredThrice

\* the squares holding a piece that is not a king
NonKings == {sq \in Squares : IsSome(PieceAt(squares, sq)) /\ Unwrap(PieceAt(squares, sq)).kind # "King"}

\* the three drawn material configurations of the rules
RuleInsufficient ==
    \/ NonKings = {}
    \/ /\ Cardinality(NonKings) = 1
       /\ \A sq \in NonKings : Unwrap(PieceAt(squares, sq)).kind \in {"Bishop", "Knight"}
    \/ /\ \A sq \in NonKings : Unwrap(PieceAt(squares, sq)).kind = "Bishop"
       /\ \A sq \in NonKings : \A other \in NonKings :
             (sq[1] + sq[2]) % 2 = (other[1] + other[2]) % 2

\* C11: insufficient_material() is true exactly for king against king, a
\* single bishop or knight beside the kings, and bishops that all stand on
\* squares of one colour beside the kings
InsufficientMaterialCases == insufficient_material(Board) <=> RuleInsufficient

InsufficientMaterialWitness ==
    /\ applied
    /\ Cardinality(NonKings) = 2
    /\ insufficient_material(Board)
    /\ ~insufficient_material(Before)

\* the number of pieces on a grid
PieceCount(grid) == Cardinality({sq \in Squares : IsSome(PieceAt(grid, sq))})

\* the applied move took a piece off the board
WasCapture == PieceCount(squares) < PieceCount(Before.squares)

\* the applied move took a pawn of the mover off its square
WasPawnMove ==
    \E sq \in Squares :
        /\ PieceAt(Before.squares, sq) = Some(Pawn(Before.active_color))
        /\ PieceAt(squares, sq) = None

\* C12: after every applied move, castling included, the halfmove clock is 0
\* if the move was a pawn move or a capture and the previous clock plus 1
\* otherwise
ClockAfterEveryMove ==
    applied =>
        halfmove_clock = IF WasPawnMove \/ WasCapture THEN 0 ELSE Before.halfmove_clock + 1

\* C13: every applied move flips the active color once and adds 1 to the
\* fullmove number exactly when it was Black's move, so n moves applied to the
\* starting position leave the fullmove number 1 + n \div 2
ColorFlipsFullmoveCounts ==
    applied =>
        /\ active_color = invert(Before.active_color)
        /\ fullmove_number =
              Before.fullmove_number + (IF Before.active_color = Black THEN 1 ELSE 0)
        /\ board_to_fen(observed[1]) = FEN_STARTING_POSITION
              => fullmove_number = 1 + ((Len(observed) - 1) \div 2)

ColorFlipsWitness ==
    /\ applied
    /\ Before.active_color = Black
    /\ active_color = White
    /\ fullmove_number = Before.fullmove_number + 1
    /\ board_to_fen(observed[1]) = FEN_STARTING_POSITION

\* C14: castle_legal_moves holds a castle only if the right is held, the
\* squares between king and rook are empty and the king's square, the square
\* it crosses and the one it lands on are not attacked; none while in check
CastlesOnlyWhenSafe ==
    \A castles \in {castle_legal_moves(Board)} :
        \A i \in 1..Len(castles) :
            /\ IsSome(castles[i].castle)
            /\ RuleLegalCastle(Board, Unwrap(castles[i].castle))
            /\ ~RuleInCheck(squares, active_color)

\* what a non-pawn SAN text names: the kind, the destination (its last two
\* characters) and the file and rank given between them
TextKind(t) ==
    CASE CharAt(t, 1) = "N" -> "Knight" [] CharAt(t, 1) = "B" -> "Bishop"
      [] CharAt(t, 1) = "R" -> "Rook" [] CharAt(t, 1) = "Q" -> "Queen"
      [] CharAt(t, 1) = "K" -> "King"

TextDst(t) == <<8 - DigitValue(CharAt(t, Len(t))), FileIndex(CharAt(t, Len(t) - 1))>>

TextFileFits(t, sq) ==
    \A i \in 2..(Len(t) - 2) : IsFile(CharAt(t, i)) => FileIndex(CharAt(t, i)) = sq[2]

TextRankFits(t, sq) ==
    \A i \in 2..(Len(t) - 2) : IsRank(CharAt(t, i)) => 8 - DigitValue(CharAt(t, i)) = sq[1]

\* the squares of the pieces the text t can mean in the position b
SanCandidates(b, t) ==
    {src \in Squares :
        /\ PieceAt(b.squares, src) = Some(Piece(TextKind(t), b.active_color))
        /\ RuleAttacksAs(b.squares, Piece(TextKind(t), b.active_color), src, TextDst(t))
        /\ TextFileFits(t, src)
        /\ TextRankFits(t, src)
        /\ ~RuleInCheck(RuleGridAfter(b, src, TextDst(t), None), b.active_color)}

\* C15: from_san resolves a non-pawn text exactly when one piece of the kind
\* reaches the destination, fits the disambiguator and keeps its king safe,
\* and to that piece's move; with no or several such pieces it returns None
SanResolvesTheOnlyCandidate ==
    \A t \in SanTexts :
        \A m \in {from_san(t, Board)} :
            \A candidates \in {SanCandidates(Board, t)} :
                IF Cardinality(candidates) = 1
                THEN /\ IsSome(m)
                     /\ Unwrap(m).dst_square = Some(TextDst(t))
                     /\ \E src \in candidates : Unwrap(m).src_square = Some(src)
                ELSE m = None

\* the decorations a SAN text may end with
Decorations == {"+", "#", "!", "?"}

\* C16: a SAN text that resolves to a move resolves to the same move when it
\* ends with one of the decorations + # ! ?, the castling tokens included
DecorationIsIgnored ==
    \A t \in MoveTexts :
        \A m \in {from_san(t, Board)} :
            IsSome(m) => \A d \in Decorations : from_san(t \o d, Board) = m

\* C17: a UCI text means the same with and without the separator: from_uci
\* returns equal results for both forms in every position, and make_uci_move
\* and make_move leave the same board and return the same value
UciDashMeansTheSame ==
    \A moves \in {legal_moves(Board)} :
        \A src \in UciSquares, dst \in UciSquares, promo \in UciPromotions :
            /\ from_uci(src \o dst \o promo, Board) = from_uci(src \o "-" \o dst \o promo, Board)
            /\ make_uci_move(Board, src \o dst \o promo, moves)
                  = make_uci_move(Board, src \o "-" \o dst \o promo, moves)
            /\ make_move(Board, src \o dst \o promo, moves)
                  = make_move(Board, src \o "-" \o dst \o promo, moves)

\* a promotion was applied that the text with the separator names
UciDashWitness ==
    /\ applied
    /\ last_op = "make_uci_move"
    /\ \E src \in UciSquares, dst \in UciSquares :
          /\ from_uci(src \o "-" \o dst \o "q", Before) = ret
          /\ from_uci(src \o dst \o "q", Before) = ret
          /\ LastMove.promotion = Some(Queen(Before.active_color))

\* the Board parse_fen builds, read field by field as a position
ParsedGrid(parsed) == [r \in Rows |-> [f \in Rows |-> parsed.pieces_order[r * 8 + f]]]

ParsedRights(bits) ==
    {right \in {WhiteKingside, WhiteQueenside, BlackKingside, BlackQueenside} :
        (bits \div (CASE right = WhiteKingside -> 1 [] right = WhiteQueenside -> 2
                      [] right = BlackKingside -> 4 [] right = BlackQueenside -> 8)) % 2 = 1}

ParsedTarget(target) ==
    IF target = None THEN None ELSE Some(<<Unwrap(target) \div 8, Unwrap(target) % 8>>)

SameFields(b, grid, color, rights, target, half, full) ==
    /\ b.squares = grid
    /\ b.active_color = color
    /\ b.castle_rights = rights
    /\ b.en_passant_target = target
    /\ b.halfmove_clock = half
    /\ b.fullmove_number = full

FromStartingPosition == observed[1] = Unwrap(fen_to_board(FEN_STARTING_POSITION))

Occurrences(str, c) == Cardinality({i \in 1..Len(str) : SubSeq(str, i, i) = c})

RECURSIVE RankWidth(_)
RankWidth(rank) ==
    IF rank = "" THEN 0
    ELSE (IF IsDigit(Head(rank)) THEN DigitValue(Head(rank)) ELSE 1) + RankWidth(Tail(rank))

WrongRankCount(placement) == Occurrences(placement, "/") # 7

WrongRankWidth(placement) ==
    \E rank \in {Split(placement, "/")[i] : i \in 1..(Occurrences(placement, "/") + 1)} :
        RankWidth(rank) # 8

IsAlgebraicSquare(str) == Len(str) = 2 /\ IsFile(SubSeq(str, 1, 1)) /\ IsRank(SubSeq(str, 2, 2))

IsNumber(str) == str # "" /\ \A i \in 1..Len(str) : IsDigit(SubSeq(str, i, i))

\* the errors that name a field of the text that is malformed
FailingFields(blocks) ==
    IF Len(blocks) < 4 \/ Len(blocks) > 6 THEN {"Blocks"}
    ELSE (IF WrongRankCount(blocks[1]) THEN {"Rank"} ELSE {})
         \cup (IF ~WrongRankCount(blocks[1]) /\ WrongRankWidth(blocks[1])
               THEN {"RankSquares"} ELSE {})
         \cup (IF blocks[2] \notin {"w", "b"} THEN {"ActiveColor"} ELSE {})
         \cup (IF blocks[3] # "-" /\ \E i \in 1..Len(blocks[3]) :
                                        SubSeq(blocks[3], i, i) \notin {"K", "Q", "k", "q"}
               THEN {"CastleRight"} ELSE {})
         \cup (IF blocks[4] # "-" /\ ~IsAlgebraicSquare(blocks[4])
               THEN {"EnPassantFile", "EnPassantRank", "EnPassantSquare"} ELSE {})
         \cup (IF Len(blocks) > 4 /\ ~IsNumber(blocks[5]) THEN {"HalfmoveClock"} ELSE {})
         \cup (IF Len(blocks) > 5 /\ ~IsNumber(blocks[6]) THEN {"FullmoveNumber"} ELSE {})

\* C19: parse_fen called with a text that has a wrong number of blocks or of
\* ranks, a rank that does not list exactly 8 squares, a bad color, castling
\* letter, en passant square or clock returns an Err that names one of the
\* malformed fields; it does not panic and does not accept the text.
MalformedFenIsAnError ==
    last_op = "parse_fen" =>
        \A failing \in {FailingFields(split_whitespace(ret.fen_str))} :
            failing # {} =>
                /\ ret.result.kind = "Err"
                /\ ret.result.value[1] \in failing

\* the placement has 8 ranks of 8 squares, no two digits in a row and no pawn on
\* the first or the last rank
WellFormedPlacement(placement) ==
    /\ ~WrongRankCount(placement)
    /\ ~WrongRankWidth(placement)
    /\ \A i \in 1..(Len(placement) - 1) : ~(IsDigit(SubSeq(placement, i, i)) /\ IsDigit(SubSeq(placement, i + 1, i + 1)))
    /\ \A rank \in {Split(placement, "/")[1], Split(placement, "/")[8]} :
           Occurrences(rank, "p") + Occurrences(rank, "P") = 0

KinglessColors(placement) ==
    {c \in Colors : Occurrences(placement, IF c = White THEN "K" ELSE "k") = 0}

KingsOf(grid, c) == {sq \in Squares : PieceAt(grid, sq) = Some(King(c))}

\* C21: in every position reached from the starting position by applied moves
\* the grid holds exactly one king of each color, and no call made in such a
\* position ends in the unreachable!() of king_square.
OneKingEachAndNoPanic ==
    FromStartingPosition =>
        /\ \A c \in Colors : Cardinality(KingsOf(squares, c)) = 1
        /\ last_op # KingMissingPanic

\* C22: applying a move never prints and never ends the process, whatever the
\* halfmove clock has reached: after every call of make_move of board.rs the
\* program runs on and nothing was printed.
MoveApplicationNeverExits ==
    last_op \in {"board_rs_make_move", ProcessExit} =>
        /\ last_op # ProcessExit
        /\ ret = <<>>

\* the last applied move was a pawn's step of two rows
WasDoubleStep ==
    /\ MovedPiece
    /\ LastMove.piece = Some(Pawn(Before.active_color))
    /\ Abs(LastDst[1] - LastSrc[1]) = 2

\* C23: after every applied move that is not a pawn's double step (a castle and
\* an en passant capture included) the en passant target is None, and after a
\* double step it is None or the square that pawn passed over; so a target
\* never outlives the move made after it was set.
EnPassantTargetLivesOneMove ==
    applied =>
        IF WasDoubleStep
        THEN en_passant_target \in {None, Some(PassedOver)}
        ELSE en_passant_target = None

\* a move was applied on a board that had a target, and the target is gone
EnPassantTargetWitness ==
    /\ applied
    /\ IsSome(Before.en_passant_target)
    /\ ~WasDoubleStep
    /\ en_passant_target = None

\* the last call applied a castling move
Castled == applied /\ IsSome(ret) /\ IsSome(LastMove.castle)

\* the columns of a castle: the rook's corner, the king's and the rook's new column
CastleColumns(kind) ==
    IF kind = Kingside THEN [rook |-> 7, new_king |-> 6, new_rook |-> 5]
    ELSE [rook |-> 0, new_king |-> 2, new_rook |-> 3]

\* the grid `after` is the grid `before` with the king of `color` moved from
\* the e-file and its rook from the corner, and nothing else changed
CastleEffect(before, after, color, cols) ==
    /\ before[HomeRow(color)][4] = Some(King(color))
    /\ before[HomeRow(color)][cols.rook] = Some(Rook(color))
    /\ \A sq \in Squares :
        after[sq[1]][sq[2]] =
            IF sq = <<HomeRow(color), cols.new_king>> THEN Some(King(color))
            ELSE IF sq = <<HomeRow(color), cols.new_rook>> THEN Some(Rook(color))
            ELSE IF sq \in {<<HomeRow(color), 4>>, <<HomeRow(color), cols.rook>>} THEN None
            ELSE before[sq[1]][sq[2]]

\* C24: an applied castling move takes the mover's king from the e-file to the
\* g-file and the rook from the h-file to the f-file (kingside), or the king
\* to the c-file and the rook from the a-file to the d-file (queenside), on
\* row 7 for White and row 0 for Black; the two origin squares are empty
\* afterwards and every other square of the grid is as it was.
CastlingMovesKingAndRook ==
    Castled =>
        CastleEffect(Before.squares, squares, Before.active_color,
                     CastleColumns(Unwrap(LastMove.castle)))

\* Black castled queenside
CastlingWitness ==
    /\ Castled
    /\ LastMove.castle = Some(Queenside)
    /\ Before.active_color = Black
    /\ squares[0][2] = Some(King(Black))
    /\ squares[0][3] = Some(Rook(Black))

\* the entries of moves from from to to
EntriesBetween(moves, from, to) ==
    {i \in 1..Len(moves) :
        moves[i].src_square = Some(from) /\ moves[i].dst_square = Some(to)}

\* a pawn of the side to move may go from from to its last row at to and
\* leaves its king unattacked
SafePawnArrival(b, from, to) ==
    /\ PieceAt(b.squares, from) = Some(Pawn(b.active_color))
    /\ to[1] = LastRow(b.active_color)
    /\ RuleStep(b, from, to)
    /\ ~RuleInCheck(RuleGridAfter(b, from, to, Some(Queen(b.active_color))),
                    b.active_color)

\* C25: for every pawn move, push or capture, onto the last rank that leaves
\* the mover's king safe, legal_moves() holds exactly four entries for that
\* source and destination, promoting to the queen, rook, bishop and knight of
\* the mover's color, and none without a promotion; an entry whose destination
\* is not the last rank, or whose piece is no pawn, carries no promotion.
PromotionsComeInFours ==
    \A moves \in {legal_moves(Board)} :
        /\ \A from \in Squares : \A to \in Squares :
            SafePawnArrival(Board, from, to) =>
                /\ Cardinality(EntriesBetween(moves, from, to)) = 4
                /\ {moves[i].promotion : i \in EntriesBetween(moves, from, to)}
                       = {Some(Piece(k, active_color)) :
                             k \in {"Queen", "Rook", "Bishop", "Knight"}}
        /\ \A i \in 1..Len(moves) :
            IsSome(moves[i].promotion) =>
                /\ IsSome(moves[i].dst_square)
                /\ Unwrap(moves[i].dst_square)[1] = LastRow(active_color)
                /\ get_piece(Board, Unwrap(moves[i].src_square)) = Some(Pawn(active_color))

\* one of the four entries of a capture onto the last rank was played
PromotionsWitness ==
    /\ MovedPiece
    /\ LastMove.promotion = Some(Knight(Before.active_color))
    /\ LastMove.capture
    /\ SafePawnArrival(Before, LastSrc, LastDst)

\* the entry is a step of two rows
TwoRows(gm) ==
    /\ IsSome(gm.src_square) /\ IsSome(gm.dst_square)
    /\ Abs(Unwrap(gm.dst_square)[1] - Unwrap(gm.src_square)[1]) = 2

\* C26: every two-square move legal_moves() lists for a pawn starts on the
\* home rank of that pawn (row 6 for White, row 1 for Black), goes straight
\* ahead, and both the square stepped over and the destination are empty; a
\* pawn on any other row, the opponent's pawn home row included, has none.
DoubleStepOnlyFromHome ==
    \A moves \in {legal_moves(Board)} :
        \A i \in 1..Len(moves) :
            (TwoRows(moves[i])
             /\ get_piece(Board, Unwrap(moves[i].src_square)) = Some(Pawn(active_color)))
            => \A from \in {Unwrap(moves[i].src_square)} :
                /\ from[1] = PawnHomeRow(active_color)
                /\ Unwrap(moves[i].dst_square)
                       = <<from[1] + 2 * Forward(active_color), from[2]>>
                /\ PieceAt(squares, <<from[1] + Forward(active_color), from[2]>>) = None
                /\ PieceAt(squares, Unwrap(moves[i].dst_square)) = None

\* a pawn on row r of column c with the two squares ahead as given
PawnFacing(b, col, row, over, dst) ==
    /\ PieceAt(b.squares, <<row, col>>) = Some(Pawn(b.active_color))
    /\ IsSome(PieceAt(b.squares, <<row + Forward(b.active_color), col>>)) = over
    /\ IsSome(PieceAt(b.squares, <<row + 2 * Forward(b.active_color), col>>)) = dst

\* a double step was played from a position where another home-rank pawn had
\* a piece on the square to step over and a third one on its destination
DoubleStepWitness ==
    /\ WasDoubleStep
    /\ \E c \in Rows : PawnFacing(Before, c, PawnHomeRow(Before.active_color), TRUE, FALSE)
    /\ \E c \in Rows : PawnFacing(Before, c, PawnHomeRow(Before.active_color), FALSE, TRUE)

\* C27: every bishop, rook or queen that square_attackers reports for a square
\* stands on the first occupied square of its ray from that square: all the
\* squares between the two are empty, so a piece behind another piece of the
\* ray, the rear rook of doubled rooks included, is never reported.
AttackersAreFirstOnRay ==
    \A sq \in Squares :
        \A attacking_pieces \in {square_attackers(Board, sq)} :
            \A i \in 1..Len(attacking_pieces) :
                Slides(attacking_pieces[i][1]) =>
                    /\ PieceAt(squares, attacking_pieces[i][2]) = Some(attacking_pieces[i][1])
                    /\ ClearBetween(squares, sq, attacking_pieces[i][2])

\* C28: for every square of the board, square_attackers is non-empty exactly
\* when some piece of the color that is not to move attacks the square under
\* the rules (a pawn diagonally ahead of itself, a knight by its leap, a king
\* by one step, a slider along a ray with nothing in between), and every pair
\* it reports names a piece of that color standing on the reported square.
SquareAttackersMatchRules ==
    \A sq \in Squares :
        \A attacking_pieces \in {square_attackers(Board, sq)} :
            /\ attacking_pieces # <<>>
                   <=> RuleAttacked(squares, sq, invert(active_color))
            /\ \A i \in 1..Len(attacking_pieces) :
                /\ attacking_pieces[i][1].color = invert(active_color)
                /\ PieceAt(squares, attacking_pieces[i][2]) = Some(attacking_pieces[i][1])

\* the square has an enemy piece of the kind on its row, column or diagonal
OnLineOf(b, sq, kind) ==
    \E from \in Squares :
        /\ PieceAt(b.squares, from) = Some(Piece(kind, invert(b.active_color)))
        /\ (Straight(from, sq) \/ Diagonal(from, sq))

\* after a move a pawn attacks one square, the square straight ahead of a pawn
\* has no attacker, and a square on the line of a queen is shielded from it
SquareAttackersWitness ==
    /\ applied
    /\ \E sq \in Squares :
        \E i \in 1..Len(square_attackers(Board, sq)) :
            square_attackers(Board, sq)[i][1].kind = "Pawn"
    /\ \E sq \in Squares :
        /\ square_attackers(Board, sq) = <<>>
        /\ sq[1] - Forward(invert(active_color)) \in Rows
        /\ PieceAt(squares, <<sq[1] - Forward(invert(active_color)), sq[2]>>)
               = Some(Pawn(invert(active_color)))
    /\ \E sq \in Squares :
        /\ square_attackers(Board, sq) = <<>>
        /\ OnLineOf(Board, sq, "Queen")

\* C29: after every applied move the last entry of position_history shows the
\* position the move led to: its placement, active color, castling rights and
\* en passant field are those of fen() of the board as apply_move left it.
HistoryHoldsTheNewPosition ==
    applied =>
        PositionKey(position_history[Len(position_history)])
            = PositionKey(board_to_fen(Board))

\* the outcome of make_move is the move gm of the generator, applied
PlayedAs(b, gm, out) ==
    /\ out.applied
    /\ IsSome(out.ret)
    /\ GenMove(Unwrap(out.ret).src_square, Unwrap(out.ret).dst_square,
               Unwrap(out.ret).promotion, Unwrap(out.ret).castle) = gm
    /\ out.board = apply_move(b, ToMove(b, gm))

\* C30: in every position every move of legal_moves() can be made through its
\* own UCI text: make_move(m.to_uci_str()) returns that move and applies
\* exactly it, captures, en passant captures, promotions, castles and moves
\* between e1/g1, e1/c1, e8/g8, e8/c8 of other pieces than a castling king
\* included.
EveryLegalMoveIsPlayable ==
    \A moves \in {legal_moves(Board)} :
        \A i \in 1..Len(moves) :
            \A move_str \in {to_uci_str(ToMove(Board, moves[i]))} :
                \A out \in {make_move(Board, move_str, moves)} :
                    PlayedAs(Board, moves[i], out)

EnPassantErrors == {"EnPassantFile", "EnPassantRank", "EnPassantSquare"}

\* C31: parse_fen returns Ok only for a text whose en passant field is "-" or
\* a file letter followed by a rank digit; for any other field (a lone file
\* letter, a bad file, a bad rank, more than two characters) it returns an
\* Err, one of the en passant errors when no other field is malformed, and
\* never a Board.
EnPassantFieldIsValidated ==
    last_op = "parse_fen" =>
        \A blocks \in {split_whitespace(ret.fen_str)} :
            (Len(blocks) \in 4..6 /\ blocks[4] # "-" /\ ~IsAlgebraicSquare(blocks[4]))
            => /\ ret.result.kind = "Err"
               /\ FailingFields(blocks) = EnPassantErrors
                      => ret.result.value[1] \in EnPassantErrors

\* a pawn of the side to move may capture en passant from from to to
EnPassantAvailable(b, from, to) ==
    /\ RuleEnPassant(b, from, to)
    /\ RulePawnStep(b, from, to)
    /\ PieceAt(b.squares, to) = None

\* the two texts of a pawn capture: e5d6 and exd6
CaptureUci(from, to) == square_to_string(from) \o square_to_string(to)
CaptureSan(from, to) == FileChars[from[2] + 1] \o "x" \o square_to_string(to)

\* C32: where an en passant capture is available, the Move parsed from its
\* UCI text and the Move parsed from its SAN text are equal in every field,
\* the capture flag included, and make_uci_move and make_san_move both apply
\* the capture.
EnPassantInEitherNotation ==
    \A from \in Squares : \A to \in Squares :
        EnPassantAvailable(Board, from, to) =>
            \A moves \in {legal_moves(Board)} :
                \A uci \in {from_uci(CaptureUci(from, to), Board)} :
                    \A san \in {from_san(CaptureSan(from, to), Board)} :
                        /\ IsSome(uci) /\ IsSome(san)
                        /\ uci = san
                        /\ contains(moves, Unwrap(uci))
                        /\ contains(moves, Unwrap(san))

\* the UCI texts CastleKind::from_uci_str knows
CastleUciTexts ==
    {"e1g1", "e1c1", "e8g8", "e8c8", "e1-g1", "e1-c1", "e8-g8", "e8-c8"}

UciSrc(text) == Unwrap(from_san_str(SubSeq(text, 1, 2)))
UciDst(text) == Unwrap(from_san_str(SubSeq(text, Len(text) - 1, Len(text))))

\* C33: a UCI text e1g1, e1c1, e8g8 or e8c8, with or without '-', whose source
\* square holds a piece other than the king of the side to move is parsed by
\* from_uci as the ordinary move of that piece between the two squares, and
\* make_uci_move and make_move apply no castling move for it.
CastleTextNeedsTheKing ==
    \A text \in CastleUciTexts :
        (IsSome(get_piece(Board, UciSrc(text)))
         /\ get_piece(Board, UciSrc(text)) # Some(King(active_color)))
        => \A moves \in {legal_moves(Board)} :
            /\ from_uci(text, Board)
                   = Some(Move(get_piece(Board, UciSrc(text)), active_color,
                               Some(UciSrc(text)), Some(UciDst(text)), None, None,
                               IsSome(get_piece(Board, UciDst(text)))))
            /\ \A out \in {make_uci_move(Board, text, moves), make_move(Board, text, moves)} :
                out.applied => Unwrap(out.ret).castle = None

\* the squares of the grid that hold a piece of the color
PiecesOf(grid, color) == {sq \in Squares : OwnPiece(grid, sq, color)}

\* C34: an applied move of a knight, bishop, rook, queen or king removes no
\* enemy piece except one standing on its destination, also when the
\* destination is the en passant target: every other square that held an
\* enemy piece before the move holds it afterwards.
OnlyPawnsCaptureEnPassant ==
    (MovedPiece /\ LastMove.piece # Some(Pawn(Before.active_color)))
    => PiecesOf(squares, active_color)
           = PiecesOf(Before.squares, active_color) \ {LastDst}

\* C35: the move from_san returns for a knight or king text, with or without
\* a file or rank disambiguator, starts exactly one knight leap resp. one king
\* step from its destination; a piece of the kind standing two or more
\* repeated steps away in the same direction is never the source.
SanSourceIsOneStepAway ==
    (last_op = "make_san_move" /\ IsSome(ret) /\ LastMove.castle = None
     /\ IsSome(LastMove.piece)
     /\ Unwrap(LastMove.piece).kind \in {"Knight", "King"})
    => RuleAttacksAs(Before.squares, Unwrap(LastMove.piece), LastSrc, LastDst)

RightColor(right) == IF right \in WhiteRights THEN White ELSE Black
RightCorner(right) == IF right \in {WhiteKingside, BlackKingside} THEN 7 ELSE 0

\* C36: in every position reached, each castling right still held has its
\* king on the e-file of its home row and its rook on the corner of that row
\* (h-file for kingside, a-file for queenside), so castle_kingside and
\* castle_queenside, which write king and rook without reading the grid,
\* neither create nor duplicate a piece.
RightsMeanHomeSquares ==
    \A right \in castle_rights :
        /\ squares[HomeRow(RightColor(right))][4] = Some(King(RightColor(right)))
        /\ squares[HomeRow(RightColor(right))][RightCorner(right)]
               = Some(Rook(RightColor(right)))

\* a rook was captured on its corner and took its right with it, while the
\* rights of the other corners are still held
RightsWitness ==
    /\ MovedPiece
    /\ LastMove.capture
    /\ LastDst \in {<<0, 0>>, <<0, 7>>, <<7, 0>>, <<7, 7>>}
    /\ castle_rights # {}
    /\ castle_rights # Before.castle_rights

\* C37: in every position reached from the starting position, every
\* coordinate that legal_moves, square_attackers, Move::from_san,
\* Move::from_uci and apply_move (the en-passant victim square and the
\* computation of the next target included) hand to get_piece or set_piece
\* lies in rows 0..7 and columns 0..7
NoCoordinateOutsideTheGrid ==
    FromStartingPosition =>
        /\ GeneratorIndexed(Board) \subseteq Squares
        /\ \A sq \in Squares :
            /\ AttackIndexed(Board, sq) \subseteq Squares
            /\ \A i \in 1..Len(AttackerKinds) :
                AlgebraicIndexed(Board, Piece(AttackerKinds[i], active_color), sq)
                    \subseteq Squares
        /\ \A moves \in {legal_moves(Board)} :
            \A i \in 1..Len(moves) :
                ApplyIndexed(Board, ToMove(Board, moves[i])) \subseteq Squares
        /\ \A text \in MoveTexts :
            \A m \in {from_uci(text, Board)} :
                (IsSome(m) /\ Unwrap(m).castle = None)
                    => {Unwrap(Unwrap(m).src_square), Unwrap(Unwrap(m).dst_square)}
                            \subseteq Squares
        /\ (applied /\ IsSome(ret)) => ApplyIndexed(Before, LastMove) \subseteq Squares

\* from the starting position a pawn of the a-file has made its double step:
\* one of its capture directions and one neighbour of the skipped square lie
\* off the board
NoCoordinateOutsideTheGridWitness ==
    /\ FromStartingPosition
    /\ MovedPiece
    /\ LastMove.piece = Some(Pawn(Before.active_color))
    /\ LastSrc[2] = 0
    /\ Abs(LastDst[1] - LastSrc[1]) = 2

\* C38: position_history only grows, by one entry with every applied move
\* and by none with a rejected one, and once threefold_repetition() is true
\* it is true after every further applied move, pawn moves and captures
\* included
ThreefoldRepetitionIsStable ==
    /\ Len(position_history) = Len(observed[1].position_history) + Len(observed) - 1
    /\ ~applied => position_history = Before.position_history
    /\ \A i \in 1..(Len(observed) - 1) :
        /\ Len(observed[i + 1].position_history) = Len(observed[i].position_history) + 1
        /\ SubSeq(observed[i + 1].position_history, 1, Len(observed[i].position_history))
              = observed[i].position_history
        /\ threefold_repetition(observed[i]) => threefold_repetition(observed[i + 1])

\* a pawn has captured a pawn after a position had stood three times, and
\* the repetition is still reported
ThreefoldRepetitionIsStableWitness ==
    /\ MovedPiece
    /\ threefold_repetition(Before)
    /\ LastMove.piece = Some(Pawn(Before.active_color))
    /\ LastMove.capture
    /\ threefold_repetition(Board)

====
